---------------------------- MODULE Spec2Model ----------------------------
(***************************************************************************)
(* Annotation anchoring, highlighting, side-note layout and the annotation *)
(* store of the document view (app/sessions.server.ts,                      *)
(* app/routes/collections.$name.$id.tsx, app/routes/api.annotations.ts).    *)
(*                                                                         *)
(* The DOM is a heap: dom is a sequence of node records, a node is its     *)
(* index in dom, 0 is "no node".  Node 1 (Top) is the page above the       *)
(* article wrapper, node 2 (Root) is the element articleRef points to.     *)
(* Child indices in paths and offsets are 0-based, as in the code.         *)
(***************************************************************************)
EXTENDS Integers, Sequences, FiniteSets, TLC

\* ------------------------------------------------------------------ bounds
MaxCodecMarks == 1
MaxIdx == 2
MaxPathLen == 2
MaxOff == 3
MaxSpans == 2
MaxTop == 3
MaxHeight == 2
TopStep == 10
LineWidth == 2
MaxOps == 2
MaxRequests == 2

VARIABLES
    dom,          \* the DOM heap (sequence of node records)
    selection,    \* the live Range picked by the user, or NullRange
    anchor,       \* codec: the SerializedRange produced or read from storage
    resolved,     \* codec: outcome of deserializeRange
    pc,           \* position of the codec run / of the layout run
    newPositions,          \* layout: the entries collected by the highlight effect
    positionedAnnotations, \* the sorted, indexed entries the cards are drawn from
    visualOffsets,         \* card id -> visual top, set by the collision pass
    cardHeights,           \* card id -> offsetHeight measured by the last pass
    doc,              \* doc._id of the document the view shows
    mountDoc,         \* doc._id closed over by the autosave handler's performSave
    annotations,      \* the annotation store (useState list)
    activeAnnotation, \* id the popover is open on, or NoId
    editingComment,   \* the popover's textarea
    editingTags,      \* the popover's tags
    docStatus,        \* read / liked / tags of the document header
    fetcherData,      \* annotationFetcher.data
    net,              \* requests sent and not yet handled by the server
    db,               \* the server's annotation collection, in insertion order
    nextOid,          \* the next ObjectId the server hands out
    clock,            \* Date.now()
    ops               \* user operations performed so far

codecVars == <<selection, anchor, resolved>>
layoutVars == <<newPositions, positionedAnnotations, visualOffsets, cardHeights>>
popoverVars == <<activeAnnotation, editingComment, editingTags>>
serverVars == <<fetcherData, net, db, nextOid>>
appVars == <<doc, mountDoc, annotations, activeAnnotation, editingComment,
             editingTags, docStatus, fetcherData, net, db, nextOid, clock, ops>>
vars == <<dom, selection, anchor, resolved, pc, newPositions,
          positionedAnnotations, visualOffsets, cardHeights, doc, mountDoc,
          annotations, activeAnnotation, editingComment, editingTags, docStatus,
          fetcherData, net, db, nextOid, clock, ops>>

\* ------------------------------------------------------------- DOM model
Top == 1
Root == 2
NoNode == 0

\* Annotation ids: a server ObjectId, the placeholder of the general card, or a
\* temporary id "temp-general-" + Date.now().  NoId is the absent attribute.
NoId == [k |-> "", n |-> 0]
Oid(n) == [k |-> "oid", n |-> n]
Placeholder == [k |-> "general-placeholder", n |-> 0]
TempGeneral(t) == [k |-> "temp-general-", n |-> t]

Elem(tag, parent, kids) ==
    [kind |-> "elem", tag |-> tag, parent |-> parent, kids |-> kids,
     data |-> <<>>, annId |-> NoId, color |-> "", index |-> 0]

Text(parent, data) ==
    [kind |-> "text", tag |-> "#text", parent |-> parent, kids |-> <<>>,
     data |-> data, annId |-> NoId, color |-> "", index |-> 0]

\* <main><div ref=articleRef><p>ab<b>cd</b></p></div></main>
DocX ==
    << Elem("main", NoNode, <<2>>),
       Elem("div", 1, <<3>>),
       Elem("p", 2, <<4, 5>>),
       Text(3, <<"a", "b">>),
       Elem("b", 3, <<6>>),
       Text(5, <<"c", "d">>) >>

\* <main><div ref=articleRef><p>xyz</p></div></main>
DocY ==
    << Elem("main", NoNode, <<2>>),
       Elem("div", 1, <<3>>),
       Elem("p", 2, <<4>>),
       Text(3, <<"x", "y", "z">>) >>

NullRange == [sc |-> 0, so |-> 0, ec |-> 0, eo |-> 0]
ThrownRange == [sc |-> -1, so |-> 0, ec |-> -1, eo |-> 0]
NoAnchor ==
    [startPath |-> <<>>, startOffset |-> -1, endPath |-> <<>>, endOffset |-> -1,
     text |-> <<>>]

\* Array.prototype.indexOf: 0-based index of the first occurrence, or -1
IndexOf(s, x) ==
    IF \E i \in 1..Len(s) : s[i] = x
    THEN (CHOOSE i \in 1..Len(s) : s[i] = x /\ \A j \in 1..(i - 1) : s[j] # x) - 1
    ELSE -1

\* the length of a node: characters of a text node, children of an element
NodeLength(d, n) ==
    IF d[n].kind = "text" THEN Len(d[n].data) ELSE Len(d[n].kids)

\* root.contains(node): node is an inclusive descendant of root
RECURSIVE Contains(_, _, _)
Contains(d, root, node) ==
    IF node = NoNode THEN FALSE
    ELSE IF node = root THEN TRUE
    ELSE Contains(d, root, d[node].parent)

\* the subtree of n in document (pre)order
RECURSIVE Preorder(_, _)
RECURSIVE PreorderAll(_, _)
Preorder(d, n) == <<n>> \o PreorderAll(d, d[n].kids)
PreorderAll(d, ks) ==
    IF ks = <<>> THEN <<>>
    ELSE Preorder(d, Head(ks)) \o PreorderAll(d, Tail(ks))

IsText(d, n) == d[n].kind = "text"
TextNodes(d, n) == SelectSeq(Preorder(d, n), LAMBDA k : IsText(d, k))

\* Boundary points are ordered by their place in the serialized tree: a node
\* takes one slot for its start, one for its end, and its content between.
RECURSIVE Size(_, _)
RECURSIVE SumSizes(_, _)
Size(d, n) ==
    IF d[n].kind = "text" THEN Len(d[n].data) + 2
    ELSE 2 + SumSizes(d, d[n].kids)
SumSizes(d, ks) ==
    IF ks = <<>> THEN 0 ELSE Size(d, Head(ks)) + SumSizes(d, Tail(ks))

RECURSIVE Pos(_, _)
Pos(d, n) ==
    IF d[n].parent = NoNode THEN 0
    ELSE LET p == d[n].parent
         IN  Pos(d, p) + 1 + SumSizes(d, SubSeq(d[p].kids, 1, IndexOf(d[p].kids, n)))

\* the place of boundary point (n, o); (n1,o1) is before (n2,o2) iff smaller
Boundary(d, n, o) ==
    IF d[n].kind = "text" THEN Pos(d, n) + 1 + o
    ELSE Pos(d, n) + 1 + SumSizes(d, SubSeq(d[n].kids, 1, o))

Clamp(x, lo, hi) == IF x < lo THEN lo ELSE IF x > hi THEN hi ELSE x

RECURSIVE Concat(_)
Concat(ss) == IF ss = <<>> THEN <<>> ELSE Head(ss) \o Concat(Tail(ss))

\* the characters of text node t that lie inside range r
TextInRange(d, r, t) ==
    LET s == Clamp(Boundary(d, r.sc, r.so) - (Pos(d, t) + 1), 0, Len(d[t].data))
        e == Clamp(Boundary(d, r.ec, r.eo) - (Pos(d, t) + 1), 0, Len(d[t].data))
    IN  SubSeq(d[t].data, s + 1, e)

\* Range.toString(): the text of the range's text nodes, clipped at the ends
RangeToString(d, r) ==
    LET ts == TextNodes(d, Top)
    IN  Concat([i \in 1..Len(ts) |-> TextInRange(d, r, ts[i])])

\* Range.intersectsNode(node)
IntersectsNode(d, r, n) ==
    /\ Pos(d, n) < Boundary(d, r.ec, r.eo)
    /\ Pos(d, n) + Size(d, n) > Boundary(d, r.sc, r.so)

RECURSIVE Ancestors(_, _)
Ancestors(d, n) ==
    IF n = NoNode THEN <<>> ELSE <<n>> \o Ancestors(d, d[n].parent)

\* Range.commonAncestorContainer
CommonAncestor(d, r) ==
    LET as == Ancestors(d, r.sc)
        i == CHOOSE k \in 1..Len(as) :
                 /\ Contains(d, as[k], r.ec)
                 /\ \A j \in 1..(k - 1) : ~Contains(d, as[j], r.ec)
    IN  as[i]

\* ------------------------------------------------------------ anchor codec
\* getNodePath: walk up from node to root, unshift the index among ALL child
\* nodes of each parent; [] when the walk leaves the tree
RECURSIVE GetNodePathFrom(_, _, _, _)
GetNodePathFrom(d, current, root, path) ==
    IF current = root THEN path
    ELSE IF d[current].parent = NoNode THEN <<>>
    ELSE GetNodePathFrom(d, d[current].parent, root,
                         <<IndexOf(d[d[current].parent].kids, current)>> \o path)

\* mutant: the index is recorded at the end of the path (push for unshift)
getNodePathPush(d, node, root) ==
    LET RECURSIVE Up(_, _)
        Up(current, path) ==
            IF current = root THEN path
            ELSE IF d[current].parent = NoNode THEN <<>>
            ELSE Up(d[current].parent,
                    path \o <<IndexOf(d[d[current].parent].kids, current)>>)
    IN  Up(node, <<>>)

getNodePath(d, node, root) == GetNodePathFrom(d, node, root, <<>>)

\* mutant: no bounds check, so a missing child is followed (undefined) and the
\* next lookup on it throws; a path ending on it yields undefined (no node)
getNodeFromPathUnchecked(d, path, root) ==
    LET RECURSIVE Down(_, _)
        Down(current, rest) ==
            IF rest = <<>> THEN current
            ELSE IF current = NoNode THEN -1
            ELSE IF Head(rest) >= Len(d[current].kids) THEN Down(NoNode, Tail(rest))
            ELSE Down(d[current].kids[Head(rest) + 1], Tail(rest))
    IN  Down(root, path)

\* getNodeFromPath: repeated indexed child lookup, null when a child is missing
RECURSIVE GetNodeFromPathAt(_, _, _)
GetNodeFromPathAt(d, current, rest) ==
    IF rest = <<>> THEN current
    ELSE IF Head(rest) >= Len(d[current].kids) THEN NoNode
    ELSE GetNodeFromPathAt(d, d[current].kids[Head(rest) + 1], Tail(rest))

getNodeFromPath(d, path, root) == GetNodeFromPathAt(d, root, path)

serializeRange(d, range, root) ==
    IF ~Contains(d, root, range.sc) \/ ~Contains(d, root, range.ec)
    THEN NoAnchor
    ELSE [startPath |-> getNodePath(d, range.sc, root),
          startOffset |-> range.so,
          endPath |-> getNodePath(d, range.ec, root),
          endOffset |-> range.eo,
          text |-> RangeToString(d, range)]

\* document.createRange(); range.setStart(startNode, so); range.setEnd(endNode, eo)
\* An offset beyond the node's length throws IndexSizeError; an end before the
\* start collapses the range onto the end point.
SetStartEnd(d, startNode, so, endNode, eo) ==
    IF so > NodeLength(d, startNode) \/ eo > NodeLength(d, endNode)
    THEN ThrownRange
    ELSE IF Boundary(d, endNode, eo) < Boundary(d, startNode, so)
    THEN [sc |-> endNode, so |-> eo, ec |-> endNode, eo |-> eo]
    ELSE [sc |-> startNode, so |-> so, ec |-> endNode, eo |-> eo]

\* mutant: the endpoints are set outside the try/catch
deserializeRangeNoCatch(d, data, root) ==
    LET startNode == getNodeFromPath(d, data.startPath, root)
        endNode == getNodeFromPath(d, data.endPath, root)
    IN  IF startNode = NoNode \/ endNode = NoNode THEN NullRange
        ELSE SetStartEnd(d, startNode, data.startOffset, endNode, data.endOffset)

deserializeRange(d, data, root) ==
    LET startNode == getNodeFromPath(d, data.startPath, root)
        endNode == getNodeFromPath(d, data.endPath, root)
    IN  IF startNode = -1 \/ endNode = -1 THEN ThrownRange
        ELSE IF startNode = NoNode \/ endNode = NoNode THEN NullRange
        ELSE LET r == SetStartEnd(d, startNode, data.startOffset,
                                  endNode, data.endOffset)
             IN  IF r = ThrownRange THEN NullRange ELSE r

\* ------------------------------------------------------------- highlighter
\* Range.surroundContents(mark) for the part [s, e) of text node t: the node
\* keeps the text before s, the mark holds a new text node with the part, and
\* a new text node with the rest follows the mark (either may be empty).
SurroundContents(d, t, s, e, id, color) ==
    LET p == d[t].parent
        mark == Len(d) + 1
        clone == Len(d) + 2
        after == Len(d) + 3
        i == IndexOf(d[p].kids, t) + 1
        data == d[t].data
        d1 == [d EXCEPT ![t].data = SubSeq(data, 1, s),
                        ![p].kids = SubSeq(@, 1, i) \o <<mark, after>>
                                    \o SubSeq(@, i + 1, Len(@))]
    IN  d1 \o << [Elem("mark", p, <<clone>>) EXCEPT !.annId = id, !.color = color],
                 Text(mark, SubSeq(data, s + 1, e)),
                 Text(p, SubSeq(data, e + 1, Len(data))) >>

\* mutant: every intersecting text node is wrapped whole
highlightRangeWholeNodes(d, range, id, color) ==
    LET ca == CommonAncestor(d, range)
        ts == SelectSeq(TextNodes(d, ca), LAMBDA t : IntersectsNode(d, range, t))
        nodesToWrap == SelectSeq(ts, LAMBDA t : 0 < Len(d[t].data))
        RECURSIVE Apply(_, _, _)
        Apply(dd, rest, marks) ==
            IF rest = <<>> THEN [dom |-> dd, marks |-> marks]
            ELSE Apply(SurroundContents(dd, Head(rest), 0, Len(d[Head(rest)].data),
                                        id, color),
                       Tail(rest), Append(marks, Len(dd) + 1))
    IN  Apply(d, nodesToWrap, <<>>)

\* highlightRange: the new DOM and the marks created, in document order
highlightRange(d, range, id, color) ==
    LET ca == CommonAncestor(d, range)
        ts == SelectSeq(TextNodes(d, ca), LAMBDA t : IntersectsNode(d, range, t))
        StartOf(t) == IF t = range.sc THEN range.so ELSE 0
        EndOf(t) == IF t = range.ec THEN range.eo ELSE Len(d[t].data)
        nodesToWrap == SelectSeq(ts, LAMBDA t : StartOf(t) < EndOf(t))
        RECURSIVE Apply(_, _, _)
        Apply(dd, rest, marks) ==
            IF rest = <<>> THEN [dom |-> dd, marks |-> marks]
            ELSE Apply(SurroundContents(dd, Head(rest), StartOf(Head(rest)),
                                        EndOf(Head(rest)), id, color),
                       Tail(rest), Append(marks, Len(dd) + 1))
    IN  Apply(d, nodesToWrap, <<>>)

\* articleRef.querySelectorAll(`mark[data-annotation-id="${id}"]`)
MarksOf(d, id) ==
    SelectSeq(Preorder(d, Root), LAMBDA n : d[n].tag = "mark" /\ d[n].annId = id)

AllMarks(d) == SelectSeq(Preorder(d, Root), LAMBDA n : d[n].tag = "mark")

\* ------------------------------------------------------- side-note layout
\* An annotation record as the store, the server and the cards hold it; a
\* positioned entry is the record plus top (and, once labelled, index).
Gap == 15

Entry(id, documentId, range, text, color, comment, tags, isGeneral, top) ==
    [_id |-> id, documentId |-> documentId, range |-> range, text |-> text,
     color |-> color, comment |-> comment, tags |-> tags, isGeneral |-> isGeneral,
     read |-> FALSE, liked |-> FALSE, top |-> top, index |-> 0]

placeholderGeneral(generalTop) ==
    Entry(Placeholder, "", NoAnchor, <<>>, "#e5e7eb", "", <<>>, TRUE, generalTop)

\* mutant: the comparator with its operands exchanged in the difference
ComparePositionsReversed(a, b) ==
    IF a.isGeneral THEN -1
    ELSE IF b.isGeneral THEN 1
    ELSE b.top - a.top

\* mutant: the comparator without the general note's precedence
ComparePositionsByTop(a, b) == a.top - b.top

\* the comparator of newPositions.sort: the general note first, then by top
ComparePositions(a, b) ==
    IF a.isGeneral THEN -1
    ELSE IF b.isGeneral THEN 1
    ELSE a.top - b.top

\* Array.prototype.sort (stable): each entry goes before the first entry of
\* the sorted prefix that the comparator puts after it
InsertSorted(sorted, x) ==
    LET later == {i \in 1..Len(sorted) : ComparePositions(x, sorted[i]) < 0}
        at == IF later = {} THEN Len(sorted) + 1
              ELSE CHOOSE i \in later : \A j \in later : i <= j
    IN  SubSeq(sorted, 1, at - 1) \o <<x>> \o SubSeq(sorted, at, Len(sorted))

RECURSIVE SortFrom(_, _)
SortFrom(sorted, rest) ==
    IF rest = <<>> THEN sorted
    ELSE SortFrom(InsertSorted(sorted, Head(rest)), Tail(rest))

SortPositions(ps) == SortFrom(<<>>, ps)

\* p.range && !p.isGeneral
IsSpan(p) == p.range # NoAnchor /\ ~p.isGeneral

\* index 0 for the general note, currentIndex++ for each highlight in order
LabelPositions(ps) ==
    [i \in 1..Len(ps) |->
        [ps[i] EXCEPT !.index =
            IF IsSpan(ps[i])
            THEN Cardinality({j \in 1..i : IsSpan(ps[j])})
            ELSE 0]]

\* mutant: every card stays at its raw top
RECURSIVE CollisionFromRawTop(_, _, _, _, _)
CollisionFromRawTop(ps, heights, first, lastBottom, acc) ==
    IF ps = <<>> THEN acc
    ELSE IF Head(ps)._id \notin DOMAIN heights
    THEN CollisionFromRawTop(Tail(ps), heights, first, lastBottom, acc)
    ELSE CollisionFromRawTop(Tail(ps), heights, FALSE,
                             Head(ps).top + heights[Head(ps)._id],
                             [id \in DOMAIN acc \cup {Head(ps)._id} |->
                                 IF id = Head(ps)._id THEN Head(ps).top ELSE acc[id]])

\* the collision pass over the cards: visualTop = max(top, lastBottom + 15),
\* lastBottom starts at -Infinity (first = TRUE)
RECURSIVE CollisionFrom(_, _, _, _, _)
CollisionFrom(ps, heights, first, lastBottom, acc) ==
    IF ps = <<>> THEN acc
    ELSE LET ann == Head(ps)
             targetTop == ann.top
             visualTop == IF ~first /\ targetTop < lastBottom + Gap
                          THEN lastBottom + Gap ELSE targetTop
         IN  IF ann._id \notin DOMAIN heights
             THEN CollisionFrom(Tail(ps), heights, first, lastBottom, acc)
             ELSE CollisionFrom(Tail(ps), heights, FALSE,
                                visualTop + heights[ann._id],
                                [id \in DOMAIN acc \cup {ann._id} |->
                                    IF id = ann._id THEN visualTop ELSE acc[id]])

NoOffsets == [id \in {} |-> 0]

NewOffsets(ps, heights) == CollisionFrom(ps, heights, TRUE, 0, NoOffsets)

\* mutant: the state is updated only for a card that has no offset yet
CollisionPassNewCards(ps, heights, offsets) ==
    LET new == NewOffsets(ps, heights)
        changed == \E id \in DOMAIN new : id \notin DOMAIN offsets
    IN  IF Len(ps) = 0 \/ DOMAIN heights = {} THEN offsets
        ELSE IF changed THEN new ELSE offsets

\* the useLayoutEffect: nothing without entries or cards; the offsets are
\* replaced only when some computed visualTop differs from the state
CollisionPass(ps, heights, offsets) ==
    LET new == NewOffsets(ps, heights)
        changed == \E id \in DOMAIN new :
                       id \notin DOMAIN offsets \/ offsets[id] # new[id]
    IN  IF Len(ps) = 0 \/ DOMAIN heights = {} THEN offsets
        ELSE IF changed THEN new ELSE offsets

LayoutIdle ==
    /\ newPositions = <<>>
    /\ positionedAnnotations = <<>>
    /\ visualOffsets = NoOffsets
    /\ cardHeights = NoOffsets

\* --------------------------------------------------------- unhighlight
Detach(d, n) == [d EXCEPT ![n].parent = NoNode]

\* Node.normalize(): empty text nodes go, runs of adjacent text nodes merge
\* into their first node, down the whole subtree
RECURSIVE Normalize(_, _)
RECURSIVE NormalizeKids(_, _, _)
Normalize(d, n) ==
    LET r == NormalizeKids(d, d[n].kids, <<>>)
    IN  [r.dom EXCEPT ![n].kids = r.kids]
NormalizeKids(d, ks, out) ==
    IF ks = <<>> THEN [dom |-> d, kids |-> out]
    ELSE LET k == Head(ks)
             rest == Tail(ks)
         IN  IF ~IsText(d, k)
             THEN NormalizeKids(Normalize(d, k), rest, Append(out, k))
             ELSE IF d[k].data = <<>>
             THEN NormalizeKids(Detach(d, k), rest, out)
             ELSE LET ends == {i \in 0..Len(rest) :
                                  \A j \in 1..i : IsText(d, rest[j])}
                      run == CHOOSE i \in ends : \A j \in ends : j <= i
                      merged == d[k].data
                                \o Concat([j \in 1..run |-> d[rest[j]].data])
                      RECURSIVE DetachAll(_, _)
                      DetachAll(dd, j) ==
                          IF j > run THEN dd
                          ELSE DetachAll(Detach(dd, rest[j]), j + 1)
                      d1 == [DetachAll(d, 1) EXCEPT ![k].data = merged]
                  IN  NormalizeKids(d1, SubSeq(rest, run + 1, Len(rest)),
                                    Append(out, k))

\* deleteAnnotation's unwrap of one mark: its children move before it, it is
\* removed, and its parent is normalized
UnwrapMark(d, el) ==
    LET p == d[el].parent
        i == IndexOf(d[p].kids, el) + 1
        moved == d[el].kids
        d1 == [n \in 1..Len(d) |->
                  IF n = p
                  THEN [d[n] EXCEPT !.kids = SubSeq(@, 1, i - 1) \o moved
                                             \o SubSeq(@, i + 1, Len(@))]
                  ELSE IF n = el
                  THEN [d[n] EXCEPT !.kids = <<>>, !.parent = NoNode]
                  ELSE IF \E j \in 1..Len(moved) : moved[j] = n
                  THEN [d[n] EXCEPT !.parent = p]
                  ELSE d[n]]
    IN  IF p = NoNode THEN d ELSE Normalize(d1, p)

RECURSIVE UnwrapAll(_, _)
UnwrapAll(d, els) ==
    IF els = <<>> THEN d ELSE UnwrapAll(UnwrapMark(d, Head(els)), Tail(els))

\* the marks of the annotation (a static NodeList), each unwrapped in turn
Unhighlight(d, id) == UnwrapAll(d, MarksOf(d, id))

\* ------------------------------------------------------------- the page
\* The rendered page: articleRef wraps a header that React renders (the
\* collection name, the same text for every document of the collection) and
\* #article-content, whose innerHTML is the document's html.
BodyText(docId) == IF docId = "X" THEN <<"a", "b">> ELSE <<"x", "y">>

\* the document's html parsed under `content`, its nodes numbered from `at`
Body(docId, content, at) ==
    << Elem("p", content, <<at + 1>>), Text(at, BodyText(docId)) >>

\* <main><div ref=articleRef><p>k</p><div id=article-content>html</div></div></main>
Page(docId) ==
    << Elem("main", NoNode, <<2>>),
       Elem("div", 1, <<3, 5>>),
       Elem("p", 2, <<4>>),
       Text(3, <<"k">>),
       Elem("#article-content", 2, <<6>>) >> \o Body(docId, 5, 6)

PristineDom(docId) == Page(docId)

\* the nodes of the tree renumbered in document order (detached nodes are
\* dropped); the tree itself is unchanged
Canon(d) ==
    LET order == Preorder(d, Top)
        Rank(n) == IF n = NoNode THEN NoNode ELSE IndexOf(order, n) + 1
    IN  [i \in 1..Len(order) |->
            [d[order[i]] EXCEPT !.parent = Rank(@),
                                !.kids = [j \in 1..Len(@) |-> Rank(@[j])]]]

\* ArticleContent re-rendered with another html: the children of
\* #article-content are replaced; what React rendered around it and did not
\* change stays as it is in the DOM
SetInnerHTML(d, docId) ==
    LET order == Preorder(d, Top)
        c == CHOOSE n \in {order[i] : i \in 1..Len(order)} :
                 d[n].tag = "#article-content"
        at == Len(d) + 1
    IN  [n \in 1..Len(d) |->
            IF n = c THEN [d[n] EXCEPT !.kids = <<at>>]
            ELSE IF d[n].parent = c THEN [d[n] EXCEPT !.parent = NoNode]
            ELSE d[n]] \o Body(docId, c, at)

\* ----------------------------------------------------- annotation store
Ann(id, documentId, range, text, color, comment, tags, isGeneral) ==
    [_id |-> id, documentId |-> documentId, range |-> range, text |-> text,
     color |-> color, comment |-> comment, tags |-> tags, isGeneral |-> isGeneral,
     read |-> FALSE, liked |-> FALSE]

\* { ...ann, top } of the highlight effect
ToEntry(ann, isGeneral, top) ==
    [Entry(ann._id, ann.documentId, ann.range, ann.text, ann.color, ann.comment,
           ann.tags, isGeneral, top) EXCEPT !.read = ann.read, !.liked = ann.liked]

\* id.startsWith("temp-")
IsTemp(id) == id.k = "temp-general-"

\* the filter of the fetched list and of the highlight effect
RelevantAnnotations(anns, docId) ==
    SelectSeq(anns, LAMBDA a : a.documentId = docId)

\* the characters of the text nodes of ts that start before node n
RECURSIVE CharsBefore(_, _, _)
CharsBefore(d, ts, n) ==
    IF ts = <<>> THEN 0
    ELSE (IF Pos(d, Head(ts)) < Pos(d, n) THEN Len(d[Head(ts)].data) ELSE 0)
         + CharsBefore(d, Tail(ts), n)

\* the lines a paragraph takes: LineWidth characters to the line, one at least
LinesOf(d, block) ==
    LET ts == TextNodes(d, block)
        n == Len(Concat([i \in 1..Len(ts) |-> d[ts[i]].data]))
    IN  IF n = 0 THEN 1 ELSE (n + LineWidth - 1) \div LineWidth

RECURSIVE LinesBefore(_, _, _)
LinesBefore(d, blocks, n) ==
    IF blocks = <<>> THEN 0
    ELSE (IF Pos(d, Head(blocks)) + Size(d, Head(blocks)) <= Pos(d, n)
          THEN LinesOf(d, Head(blocks)) ELSE 0)
         + LinesBefore(d, Tail(blocks), n)

\* the paragraph a node lies in
RECURSIVE BlockOf(_, _)
BlockOf(d, n) ==
    IF n = NoNode \/ d[n].tag = "p" THEN n ELSE BlockOf(d, d[n].parent)

\* mark.offsetTop summed up to articleRef: the line the mark starts on, the
\* paragraphs above it counted whole
MarkTop(d, mark) ==
    LET blocks == SelectSeq(Preorder(d, Root), LAMBDA n : d[n].tag = "p")
        block == BlockOf(d, mark)
    IN  TopStep * (LinesBefore(d, blocks, mark)
                   + (CharsBefore(d, TextNodes(d, block), mark) \div LineWidth))

\* titleRect.top - articleRect.top
GeneralTop == 0

FirstOf(marks) == IF marks = <<>> THEN NoNode ELSE marks[1]

\* mutant: the look-up finds nothing
QueryMarkNothing(d, id) == NoNode

\* articleRef.querySelector(`mark[data-annotation-id="${id}"]`)
QueryMark(d, id) == FirstOf(MarksOf(d, id))

\* newPositions.push({ ...ann, top }) when the annotation has a mark
Collect(d, ann, mark, acc) ==
    IF mark = NoNode THEN acc
    ELSE Append(acc, ToEntry(ann, ann.isGeneral, MarkTop(d, mark)))

\* highlightRange on the deserialized range; nothing on null (or on an error
\* caught by the loop's try)
HighlightResolved(d, range, ann) ==
    IF range # NullRange /\ range # ThrownRange
    THEN highlightRange(d, range, ann._id, ann.color)
    ELSE [dom |-> d, marks |-> <<>>]

\* the highlight loop over the relevant annotations: records without a range
\* are skipped; a mark already in the article is reused, otherwise the anchor
\* is resolved and wrapped; an entry is collected for every annotation that
\* has a mark
RECURSIVE HighlightLoop(_, _, _)
RECURSIVE HighlightOne(_, _, _, _)
RECURSIVE HighlightNext(_, _, _)
HighlightLoop(d, anns, acc) ==
    IF anns = <<>> THEN [dom |-> d, newPositions |-> acc]
    ELSE IF Head(anns).range = NoAnchor THEN HighlightLoop(d, Tail(anns), acc)
    ELSE HighlightOne(d, anns, acc, QueryMark(d, Head(anns)._id))
HighlightOne(d, anns, acc, mark) ==
    IF mark # NoNode
    THEN HighlightLoop(d, Tail(anns), Collect(d, Head(anns), mark, acc))
    ELSE HighlightNext(HighlightResolved(d, deserializeRange(d, Head(anns).range, Root),
                                         Head(anns)),
                       anns, acc)
\* mutant: the pass ends at the first annotation that gets no mark
HighlightNextAbort(hl, anns, acc) ==
    IF hl.marks = <<>> THEN [dom |-> hl.dom, newPositions |-> acc]
    ELSE HighlightLoop(hl.dom, Tail(anns),
                       Collect(hl.dom, Head(anns), FirstOf(hl.marks), acc))

HighlightNext(hl, anns, acc) ==
    HighlightLoop(hl.dom, Tail(anns),
                  Collect(hl.dom, Head(anns), FirstOf(hl.marks), acc))

HighlightAll(d, anns) == HighlightLoop(d, anns, <<>>)

\* the general entry: the first relevant record without a range, or the
\* placeholder
GeneralEntry(relevant) ==
    LET gs == SelectSeq(relevant, LAMBDA a : a.range = NoAnchor)
    IN  IF gs = <<>> THEN placeholderGeneral(GeneralTop)
        ELSE ToEntry(gs[1], TRUE, GeneralTop)

\* data-annotation-index on the first mark of every labelled highlight whose
\* id is not temporary
RECURSIVE SetIndexes(_, _)
\* mutant: the index is written on no mark
SetIndexesNowhere(d, ps) == d

SetIndexes(d, ps) ==
    IF ps = <<>> THEN d
    ELSE LET p == Head(ps)
             ms == MarksOf(d, p._id)
         IN  IF IsSpan(p) /\ ~IsTemp(p._id) /\ ms # <<>>
             THEN SetIndexes([d EXCEPT ![ms[1]].index = p.index], Tail(ps))
             ELSE SetIndexes(d, Tail(ps))

\* setPositionedAnnotations(labeledPositions), the index written on the marks
Labelled(d, collected, labeled) ==
    [dom |-> SetIndexes(d, labeled), newPositions |-> collected,
     positioned |-> labeled]

Sorted(d, collected) ==
    Labelled(d, collected, LabelPositions(SortPositions(collected)))

Collected(loop, general) == Sorted(loop.dom, Append(loop.newPositions, general))

EffectOn(d, relevant) == Collected(HighlightAll(d, relevant), GeneralEntry(relevant))

\* the highlight effect: highlight and collect, add the general entry, sort,
\* label
HighlightEffect(d, anns, docId) == EffectOn(d, RelevantAnnotations(anns, docId))

\* node.offsetHeight of a card: taller with a comment
CardHeight(p) == IF p.comment = "" THEN TopStep ELSE 2 * TopStep

CardHeights(ps) ==
    [id \in {ps[i]._id : i \in 1..Len(ps)} |->
        CardHeight(ps[CHOOSE i \in 1..Len(ps) : ps[i]._id = id])]

\* ------------------------------------------------------------- requests
\* the form data of a request (a field the form does not carry is "", NoId,
\* NoAnchor or <<>>); live: its response is still awaited by its fetcher
Req(fetcher, intent, documentId, annotationId, range, text, color, comment, tags, tag, field, value) ==
    [fetcher |-> fetcher, intent |-> intent, documentId |-> documentId,
     annotationId |-> annotationId, range |-> range, text |-> text,
     color |-> color, comment |-> comment, tags |-> tags, tag |-> tag,
     field |-> field, value |-> value, live |-> TRUE]

NoReq == [Req("", "", "", NoId, NoAnchor, <<>>, "", "", <<>>, "", "", "")
            EXCEPT !.live = FALSE]

LoadReq(docId) ==
    Req("annotation", "load", docId, NoId, NoAnchor, <<>>, "", "", <<>>, "", "", "")

\* String(newValue) of a boolean, and the server's value === "true"
BoolString(b) == IF b THEN "true" ELSE "false"
IsTrueString(v) == v = "true"

\* fetcher.load / fetcher.submit: the fetcher's earlier request is aborted (a
\* load is gone, an action may still reach the server, its response is dropped)
FetcherSend(n, req) ==
    IF req = NoReq THEN n
    ELSE {IF r.fetcher = req.fetcher THEN [r EXCEPT !.live = FALSE] ELSE r :
             r \in {q \in n : ~(q.fetcher = req.fetcher /\ q.intent = "load")}}
         \cup {req}

NoData == [kind |-> "none", annotations |-> <<>>]
SuccessData == [kind |-> "success", annotations |-> <<>>]
ErrorData == [kind |-> "error", annotations |-> <<>>]
ListData(anns) == [kind |-> "list", annotations |-> anns]

\* mutant: the request is submitted, the store is left as it is
performSaveNoStore(anns, id, comment, tags, docId, now) ==
    IF id = Placeholder \/ id.k = "temp-general-"
    THEN [annotations |-> anns, changed |-> FALSE,
          request |-> Req("annotation", "upsertGeneral", docId, NoId, NoAnchor,
                          <<>>, "", comment, tags, "", "", "")]
    ELSE [annotations |-> anns, changed |-> FALSE,
          request |-> Req("annotation", "update", "", id, NoAnchor, <<>>, "",
                          comment, tags, "", "", "")]

\* performSave(id, comment, tags) in a closure over docId: the new store and
\* the request submitted (NoReq when it returns early)
performSave(anns, id, comment, tags, docId, now) ==
    LET isGeneral == id = Placeholder \/ id.k = "temp-general-"
    IN  IF isGeneral
        THEN [annotations |->
                 Append(SelectSeq(anns, LAMBDA a : ~a.isGeneral \/ a.range # NoAnchor),
                        Ann(TempGeneral(now), docId, NoAnchor, <<>>, "#e5e7eb",
                            comment, tags, TRUE)),
              changed |-> TRUE,
              request |-> Req("annotation", "upsertGeneral", docId, NoId, NoAnchor,
                              <<>>, "", comment, tags, "", "", "")]
        ELSE IF IsTemp(id)
        THEN [annotations |-> anns, changed |-> FALSE, request |-> NoReq]
        ELSE [annotations |->
                 [i \in 1..Len(anns) |->
                     IF anns[i]._id = id
                     THEN [anns[i] EXCEPT !.comment = comment, !.tags = tags]
                     ELSE anns[i]],
              changed |-> TRUE,
              request |-> Req("annotation", "update", "", id, NoAnchor, <<>>, "",
                              comment, tags, "", "", "")]

\* the popover's isGeneral: the placeholder id, or a store record without a
\* range (or flagged general) under the active id
PopoverIsGeneral(anns, id) ==
    \/ id = Placeholder
    \/ LET found == SelectSeq(anns, LAMBDA a : a._id = id)
       IN  found # <<>> /\ (found[1].range = NoAnchor \/ found[1].isGeneral)

\* ---------------------------------------------------------------- server
NoStatus == [read |-> FALSE, liked |-> FALSE, tags |-> <<>>]

\* loaderData.docStatus: the flags and tags of the document's record without
\* a range (the last one, if there are several)
StatusOf(records, docId) ==
    LET gs == SelectSeq(records, LAMBDA r : r.documentId = docId /\ r.range = NoAnchor)
    IN  IF gs = <<>> THEN NoStatus
        ELSE [read |-> gs[Len(gs)].read, liked |-> gs[Len(gs)].liked,
              tags |-> gs[Len(gs)].tags]

\* $addToSet and $pull on an array field
AddToSet(tags, tag) ==
    IF \E i \in 1..Len(tags) : tags[i] = tag THEN tags ELSE Append(tags, tag)
Pull(tags, tag) == SelectSeq(tags, LAMBDA t : t # tag)

\* updateOne(filter, update, {upsert}) on the first record the filter matches
FirstGeneral(records, docId) ==
    LET S == {i \in 1..Len(records) :
                 records[i].documentId = docId /\ records[i].range = NoAnchor}
    IN  IF S = {} THEN 0 ELSE CHOOSE i \in S : \A j \in S : i <= j

\* find({documentId, collectionName}).toArray()
Find(records, docId) == SelectSeq(records, LAMBDA r : r.documentId = docId)

\* The intents of the action of /api/annotations: each gives the collection
\* after the request, the next ObjectId and the response.
Served(records, oid, data) == [db |-> records, nextOid |-> oid, data |-> data]

\* mutant: the color sent with the request is not read
serverCreateDefaultColor(records, oid, req) ==
    Served(Append(records,
               Ann(Oid(oid), req.documentId, req.range, req.text, "#fef9c3",
                   req.comment, req.tags, FALSE)),
           oid + 1, SuccessData)

\* insertOne(newAnnotation); the color defaults to "#fef9c3"
serverCreate(records, oid, req) ==
    Served(Append(records,
               Ann(Oid(oid), req.documentId, req.range, req.text,
                   IF req.color = "" THEN "#fef9c3" ELSE req.color,
                   req.comment, req.tags, FALSE)),
           oid + 1, SuccessData)

\* deleteOne({_id: new ObjectId(annotationId)}): the constructor throws on a
\* string that is no ObjectId
serverDelete(records, oid, req) ==
    IF req.annotationId.k # "oid" THEN Served(records, oid, ErrorData)
    ELSE Served(SelectSeq(records, LAMBDA r : r._id # req.annotationId), oid,
                SuccessData)

\* updateOne({_id}, {$set: {comment, tags}})
serverUpdate(records, oid, req) ==
    IF req.annotationId.k # "oid" THEN Served(records, oid, ErrorData)
    ELSE Served([i \in 1..Len(records) |->
                    IF records[i]._id = req.annotationId
                    THEN [records[i] EXCEPT !.comment = req.comment,
                                            !.tags = req.tags]
                    ELSE records[i]],
                oid, SuccessData)

\* mutant: the general note is written anew (replaceOne for updateOne/$set)
serverUpsertGeneralReplace(records, oid, req) ==
    LET g == FirstGeneral(records, req.documentId)
    IN  IF g = 0
        THEN Served(Append(records,
                        Ann(Oid(oid), req.documentId, NoAnchor, <<>>, "#e5e7eb",
                            req.comment, req.tags, FALSE)),
                    oid + 1, SuccessData)
        ELSE Served([records EXCEPT ![g] =
                        Ann(records[g]._id, req.documentId, NoAnchor, <<>>,
                            "#e5e7eb", req.comment, req.tags, FALSE)],
                    oid, SuccessData)

\* updateOne({documentId, collectionName, range: null},
\*           {$set: {comment, tags, color}}, {upsert: true})
serverUpsertGeneral(records, oid, req) ==
    LET g == FirstGeneral(records, req.documentId)
    IN  IF g = 0
        THEN Served(Append(records,
                        Ann(Oid(oid), req.documentId, NoAnchor, <<>>, "#e5e7eb",
                            req.comment, req.tags, FALSE)),
                    oid + 1, SuccessData)
        ELSE Served([records EXCEPT ![g].comment = req.comment,
                                    ![g].tags = req.tags,
                                    ![g].color = "#e5e7eb"],
                    oid, SuccessData)

\* mutant: the flag is inserted as a new record whether or not the document
\* has a general note (insertOne for the upsert)
serverToggleStatusInsert(records, oid, req) ==
    Served(Append(records,
               [Ann(Oid(oid), req.documentId, NoAnchor, <<>>, "#e5e7eb", "", <<>>,
                    FALSE) EXCEPT ![req.field] = IsTrueString(req.value)]),
           oid + 1, SuccessData)

\* updateOne(filter, {$set: {[field]: value},
\*                    $setOnInsert: {comment: "", tags: [], color, range: null}},
\*           {upsert: true})
serverToggleStatus(records, oid, req) ==
    LET g == FirstGeneral(records, req.documentId)
    IN  IF g = 0
        THEN Served(Append(records,
                        [Ann(Oid(oid), req.documentId, NoAnchor, <<>>, "#e5e7eb",
                             "", <<>>, FALSE)
                            EXCEPT ![req.field] = IsTrueString(req.value)]),
                    oid + 1, SuccessData)
        ELSE Served([records EXCEPT ![g][req.field] = IsTrueString(req.value)],
                    oid, SuccessData)

\* mutant: the tag is inserted with a new record whether or not the document
\* has a general note (insertOne for the upsert)
serverAddTagInsert(records, oid, req) ==
    Served(Append(records,
               Ann(Oid(oid), req.documentId, NoAnchor, <<>>, "#e5e7eb", "",
                   <<req.tag>>, FALSE)),
           oid + 1, SuccessData)

\* updateOne(filter, {$addToSet: {tags: tag}, $setOnInsert: {...}}, {upsert: true})
serverAddTag(records, oid, req) ==
    LET g == FirstGeneral(records, req.documentId)
    IN  IF g = 0
        THEN Served(Append(records,
                        Ann(Oid(oid), req.documentId, NoAnchor, <<>>, "#e5e7eb",
                            "", <<req.tag>>, FALSE)),
                    oid + 1, SuccessData)
        ELSE Served([records EXCEPT ![g].tags = AddToSet(@, req.tag)], oid,
                    SuccessData)

\* updateOne(filter, {$pull: {tags: tag}}), no upsert
serverRemoveTag(records, oid, req) ==
    LET g == FirstGeneral(records, req.documentId)
    IN  IF g = 0 THEN Served(records, oid, SuccessData)
        ELSE Served([records EXCEPT ![g].tags = Pull(@, req.tag)], oid,
                    SuccessData)

\* the loader / action of /api/annotations
ServerApply(records, oid, req) ==
    CASE req.intent = "load" ->
           Served(records, oid, ListData(Find(records, req.documentId)))
      [] req.intent = "create" -> serverCreate(records, oid, req)
      [] req.intent = "delete" -> serverDelete(records, oid, req)
      [] req.intent = "update" -> serverUpdate(records, oid, req)
      [] req.intent = "upsertGeneral" -> serverUpsertGeneral(records, oid, req)
      [] req.intent = "toggleStatus" -> serverToggleStatus(records, oid, req)
      [] req.intent = "addTag" -> serverAddTag(records, oid, req)
      [] req.intent = "removeTag" -> serverRemoveTag(records, oid, req)

AppIdle ==
    /\ doc = "X"
    /\ mountDoc = "X"
    /\ annotations = <<>>
    /\ activeAnnotation = NoId
    /\ editingComment = ""
    /\ editingTags = <<>>
    /\ docStatus = NoStatus
    /\ fetcherData = NoData
    /\ net = {}
    /\ db = <<>>
    /\ nextOid = 1
    /\ clock = 0
    /\ ops = 0

\* ------------------------------------------------------------ codec runs
\* every range of the page: two boundary points, the start not after the end
PageRanges(d) ==
    LET ns == {Preorder(d, Top)[i] : i \in 1..Len(Preorder(d, Top))}
        bps == {bp \in ns \X (0..MaxOff) : bp[2] <= NodeLength(d, bp[1])}
    IN  {[sc |-> a[1], so |-> a[2], ec |-> b[1], eo |-> b[2]] : a \in bps, b \in bps}
        \cap {r \in [sc : ns, so : 0..MaxOff, ec : ns, eo : 0..MaxOff] :
                 Boundary(d, r.sc, r.so) <= Boundary(d, r.ec, r.eo)}

\* what a user selects: a non-collapsed range between two text positions of
\* the article
UserRanges(d) ==
    LET ts == {TextNodes(d, Root)[i] : i \in 1..Len(TextNodes(d, Root))}
        bps == {bp \in ts \X (0..MaxOff) : bp[2] <= NodeLength(d, bp[1])}
    IN  {r \in {[sc |-> a[1], so |-> a[2], ec |-> b[1], eo |-> b[2]] : a \in bps, b \in bps} :
            /\ Boundary(d, r.sc, r.so) < Boundary(d, r.ec, r.eo)
            /\ RangeToString(d, r) # <<>>}

RECURSIVE PathsUpTo(_)
PathsUpTo(n) ==
    IF n = 0 THEN {<<>>}
    ELSE PathsUpTo(n - 1) \cup
         {Append(p, i) : p \in {q \in PathsUpTo(n - 1) : Len(q) = n - 1}, i \in 0..MaxIdx}

NotResolved == [done |-> FALSE, range |-> NullRange]

CodecInit ==
    /\ dom \in {DocX, DocY}
    /\ selection = NullRange
    /\ anchor = NoAnchor
    /\ resolved = NotResolved
    /\ pc = "fresh"
    /\ LayoutIdle
    /\ AppIdle

\* the user selects a range and it is serialized against articleRef
CodecSerialize ==
    /\ pc = "fresh"
    /\ \E r \in PageRanges(dom) :
        /\ selection' = r
        /\ anchor' = serializeRange(dom, r, Root)
    /\ pc' = "anchored"
    /\ UNCHANGED <<dom, resolved>>
    /\ UNCHANGED <<layoutVars, appVars>>

\* an anchor read from storage: any well-formed anchor on one point
CodecStored ==
    /\ pc = "fresh"
    /\ \E p \in PathsUpTo(MaxPathLen), o \in 0..MaxOff :
           anchor' = [startPath |-> p, startOffset |-> o, endPath |-> p,
                      endOffset |-> o, text |-> <<>>]
    /\ pc' = "anchored"
    /\ UNCHANGED <<dom, selection, resolved>>
    /\ UNCHANGED <<layoutVars, appVars>>

\* a highlight is painted: the DOM changes (under the anchor, if one is held)
CodecHighlight ==
    /\ pc # "done"
    /\ Len(AllMarks(dom)) < MaxCodecMarks
    /\ \E r \in UserRanges(dom) :
           dom' = highlightRange(dom, r, Oid(Len(AllMarks(dom)) + 1), "#fef9c3").dom
    /\ selection' = NullRange
    /\ UNCHANGED <<anchor, resolved, pc>>
    /\ UNCHANGED <<layoutVars, appVars>>

\* a painted highlight is removed: its marks are unwrapped
CodecUnhighlight ==
    /\ pc # "done"
    /\ \E m \in {AllMarks(dom)[i] : i \in 1..Len(AllMarks(dom))} :
           dom' = Canon(Unhighlight(dom, dom[m].annId))
    /\ selection' = NullRange
    /\ UNCHANGED <<anchor, resolved, pc>>
    /\ UNCHANGED <<layoutVars, appVars>>

\* the article is rendered again from other markup
CodecRegenerate ==
    /\ pc = "anchored"
    /\ \E d \in {DocX, DocY} : d # dom /\ dom' = d
    /\ selection' = NullRange
    /\ UNCHANGED <<anchor, resolved, pc>>
    /\ UNCHANGED <<layoutVars, appVars>>

\* the held anchor is resolved against the current DOM
CodecDeserialize ==
    /\ pc = "anchored"
    /\ anchor # NoAnchor
    /\ resolved' = [done |-> TRUE, range |-> deserializeRange(dom, anchor, Root)]
    /\ pc' = "done"
    /\ UNCHANGED <<dom, selection, anchor>>
    /\ UNCHANGED <<layoutVars, appVars>>

CodecNext ==
    \/ CodecSerialize
    \/ CodecStored
    \/ CodecHighlight
    \/ CodecUnhighlight
    \/ CodecRegenerate
    \/ CodecDeserialize

SpecCodec == CodecInit /\ [][CodecNext]_vars

\* ----------------------------------------------------------- layout runs
SomeAnchor ==
    [startPath |-> <<0, 0>>, startOffset |-> 0, endPath |-> <<0, 0>>,
     endOffset |-> 1, text |-> <<"a">>]

SpanEntry(i, t) ==
    Entry(Oid(i), "X", SomeAnchor, <<"a">>, "#fef9c3", "", <<>>, FALSE, t * TopStep)

GeneralEntries ==
    {placeholderGeneral(t * TopStep) : t \in -1..MaxTop} \cup
    {Entry(Oid(MaxSpans + 1), "X", NoAnchor, <<>>, "#e5e7eb", "note", <<>>, TRUE,
           t * TopStep) : t \in -1..MaxTop}

\* the entries of one highlight pass: the marks found, in store order, each
\* with its raw top, and the general entry pushed last
LayoutInputs ==
    UNION {
        {[i \in 1..(k + 1) |-> IF i <= k THEN SpanEntry(ids[i], tops[i]) ELSE g] :
            ids \in {f \in [1..k -> 1..MaxSpans] :
                        \A a, b \in 1..k : a # b => f[a] # f[b]},
            tops \in [1..k -> 0..MaxTop],
            g \in GeneralEntries}
        : k \in 0..MaxSpans}

LayoutInit ==
    /\ dom = DocX
    /\ selection = NullRange
    /\ anchor = NoAnchor
    /\ resolved = NotResolved
    /\ pc = "collected"
    /\ newPositions \in LayoutInputs
    /\ positionedAnnotations = <<>>
    /\ visualOffsets = NoOffsets
    /\ cardHeights = NoOffsets
    /\ AppIdle

\* steps 2 and 3 of the highlight effect: sort, assign the indices
LayoutSort ==
    /\ pc = "collected"
    /\ positionedAnnotations' = LabelPositions(SortPositions(newPositions))
    /\ pc' = "positioned"
    /\ UNCHANGED <<dom, codecVars, newPositions, visualOffsets, cardHeights, appVars>>

\* the cards are rendered and measured, the collision pass runs
LayoutCollision ==
    /\ pc = "positioned"
    /\ \E hs \in [{positionedAnnotations[i]._id : i \in 1..Len(positionedAnnotations)}
                    -> {h * TopStep : h \in 0..MaxHeight}] :
           /\ cardHeights' = hs
           /\ visualOffsets' = CollisionPass(positionedAnnotations, hs, visualOffsets)
    /\ UNCHANGED <<dom, codecVars, pc, newPositions, positionedAnnotations, appVars>>

LayoutNext ==
    \/ LayoutSort
    \/ LayoutCollision

SpecLayout == LayoutInit /\ [][LayoutNext]_vars

\* -------------------------------------------------------------- claims
InsideRoot(d, r) == Contains(d, Root, r.sc) /\ Contains(d, Root, r.ec)

\* C1: a range with both endpoints inside root, serialized and deserialized
\* on the same DOM, comes back non-null with the same start node, start
\* offset, end node and end offset, and so with the same text.
C1_RoundTrip ==
    (resolved.done /\ selection # NullRange /\ InsideRoot(dom, selection))
        => /\ anchor # NoAnchor
           /\ resolved.range = selection
           /\ RangeToString(dom, resolved.range) = anchor.text

C1_Witness ==
    /\ resolved.done
    /\ selection # NullRange
    /\ InsideRoot(dom, selection)
    /\ selection.sc # selection.ec
    /\ Len(AllMarks(dom)) > 0
    /\ anchor.text # <<>>

RECURSIVE PathInBounds(_, _, _)
PathInBounds(d, n, path) ==
    \/ path = <<>>
    \/ /\ Head(path) < Len(d[n].kids)
       /\ PathInBounds(d, d[n].kids[Head(path) + 1], Tail(path))

RECURSIVE NodeAt(_, _, _)
NodeAt(d, n, path) ==
    IF path = <<>> THEN n ELSE NodeAt(d, d[n].kids[Head(path) + 1], Tail(path))

AnchorResolves(d, a) ==
    /\ PathInBounds(d, Root, a.startPath)
    /\ PathInBounds(d, Root, a.endPath)
    /\ a.startOffset <= NodeLength(d, NodeAt(d, Root, a.startPath))
    /\ a.endOffset <= NodeLength(d, NodeAt(d, Root, a.endPath))

\* C3: deserializeRange never throws; it returns null when an index of a path
\* is out of bounds or an offset does not fit, and a range only when both
\* paths resolve.
C3_SoftFailure ==
    resolved.done
        => /\ resolved.range # ThrownRange
           /\ ~AnchorResolves(dom, anchor) => resolved.range = NullRange
           /\ resolved.range # NullRange
                 => /\ PathInBounds(dom, Root, anchor.startPath)
                    /\ PathInBounds(dom, Root, anchor.endPath)

C3_Witness ==
    /\ resolved.done
    /\ resolved.range = NullRange
    /\ ~PathInBounds(dom, Root, anchor.startPath)
    /\ anchor.text # <<>>

SpanIndexes(ps) == {i \in 1..Len(ps) : IsSpan(ps[i])}

DistinctTops(ps) ==
    \A i, j \in SpanIndexes(ps) : i # j => ps[i].top # ps[j].top

\* C5: when the span annotations have pairwise distinct raw tops, they get
\* exactly the indices 1..N, strictly increasing with raw top, and the general
\* note gets index 0 whatever its top.
C5_Ordering ==
    (pc = "positioned" /\ DistinctTops(newPositions))
        => LET ps == positionedAnnotations
           IN  /\ {ps[i].index : i \in SpanIndexes(ps)}
                     = 1..Cardinality(SpanIndexes(newPositions))
               /\ \A i, j \in SpanIndexes(ps) :
                     ps[i].top < ps[j].top => ps[i].index < ps[j].index
               /\ \A i \in 1..Len(ps) : ps[i].isGeneral => ps[i].index = 0
               /\ \A i \in 1..Len(newPositions) :
                     \E j \in 1..Len(ps) :
                         [ps[j] EXCEPT !.index = 0] = newPositions[i]

C5_Witness ==
    /\ pc = "positioned"
    /\ DistinctTops(newPositions)
    /\ Len(newPositions) = 3
    /\ newPositions[1].top > newPositions[2].top
    /\ newPositions[3].top > newPositions[1].top
    /\ positionedAnnotations[3]._id = newPositions[1]._id

\* C6: after the collision pass every entry has a visual top and, for every
\* two adjacent entries a, b of the positioned list,
\* visualTop(b) >= visualTop(a) + height(a) + 15.
C6_NonOverlap ==
    (pc = "positioned" /\ cardHeights # NoOffsets)
        => LET ps == positionedAnnotations
           IN  /\ \A i \in 1..Len(ps) : ps[i]._id \in DOMAIN visualOffsets
               /\ \A i \in 1..(Len(ps) - 1) :
                     visualOffsets[ps[i + 1]._id]
                         >= visualOffsets[ps[i]._id] + cardHeights[ps[i]._id] + 15

C6_Witness ==
    /\ pc = "positioned"
    /\ cardHeights # NoOffsets
    /\ Len(positionedAnnotations) = 3
    /\ visualOffsets[positionedAnnotations[2]._id] > positionedAnnotations[2].top
    /\ visualOffsets[positionedAnnotations[3]._id] = positionedAnnotations[3].top
    /\ cardHeights[positionedAnnotations[1]._id] > 0


\* ------------------------------------------------------------ the page
Docs == {"X", "Y"}
StatusFields == {"read"}
Comments == {"", "n"}
TagNames == {"t"}
\* the color picked in the selection toolbar (its second button)
Green == "#dcfce7"

\* what earlier sessions may have left in the collection: nothing, or X's
\* general note and a highlight of the header text, saved on X
StoredBefore ==
    LET k == [sc |-> 4, so |-> 0, ec |-> 4, eo |-> 1]
    IN  { <<>>,
          << Ann(Oid(1), "X", NoAnchor, <<>>, "#e5e7eb", "n", <<>>, FALSE),
             Ann(Oid(2), "X", serializeRange(Page("X"), k, Root),
                 RangeToString(Page("X"), k), Green, "", <<>>, FALSE) >> }

\* what the view shows once the effects have run: the article, the entries,
\* the cards' measured heights and their offsets after the collision pass
Measured(he, hs, offsets) ==
    [dom |-> Canon(he.dom), newPositions |-> he.newPositions,
     positioned |-> he.positioned, cardHeights |-> hs,
     visualOffsets |-> CollisionPass(he.positioned, hs, offsets)]

ViewOf(he, offsets) == Measured(he, CardHeights(he.positioned), offsets)

Show(v) ==
    /\ dom' = v.dom
    /\ newPositions' = v.newPositions
    /\ positionedAnnotations' = v.positioned
    /\ cardHeights' = v.cardHeights
    /\ visualOffsets' = v.visualOffsets

\* the render that follows setAnnotations(anns) while docId is viewed: the
\* highlight effect, then the cards' collision pass
Rendered(d, anns, docId) ==
    /\ annotations' = anns
    /\ Show(ViewOf(HighlightEffect(d, anns, docId), visualOffsets))

Spend == ops < MaxOps /\ ops' = ops + 1

FirstView(v) ==
    /\ dom = v.dom
    /\ newPositions = v.newPositions
    /\ positionedAnnotations = v.positioned
    /\ cardHeights = v.cardHeights
    /\ visualOffsets = v.visualOffsets

\* first render of the page on document X: empty store, the list requested
Init ==
    /\ FirstView(ViewOf(HighlightEffect(PristineDom("X"), <<>>, "X"), NoOffsets))
    /\ selection = NullRange
    /\ anchor = NoAnchor
    /\ resolved = NotResolved
    /\ pc = "page"
    /\ doc = "X"
    /\ mountDoc = "X"
    /\ annotations = <<>>
    /\ activeAnnotation = NoId
    /\ editingComment = ""
    /\ editingTags = <<>>
    /\ docStatus = NoStatus
    /\ fetcherData = NoData
    /\ net = {LoadReq("X")}
    /\ db \in StoredBefore
    /\ nextOid = Len(db) + 1
    /\ clock = 0
    /\ ops = 0

CreateReq(docId, serialized) ==
    Req("annotation", "create", docId, NoId, serialized, serialized.text, Green,
        "", <<>>, "", "", "")

\* saveAnnotation(color) on a selection made with no popover open
SaveAnnotation ==
    /\ activeAnnotation = NoId
    /\ Spend
    /\ \E r \in UserRanges(dom) :
          \E serialized \in {serializeRange(dom, r, Root)} :
              /\ serialized # NoAnchor
              /\ net' = FetcherSend(net, CreateReq(doc, serialized))
    /\ UNCHANGED <<dom, codecVars, pc, layoutVars, doc, mountDoc, annotations,
                   popoverVars, docStatus, fetcherData, db, nextOid, clock>>

\* a click on a side-note card opens the popover on its entry
ClickCard ==
    /\ \E i \in 1..Len(positionedAnnotations) :
          LET ann == positionedAnnotations[i]
          IN  /\ activeAnnotation' = ann._id
              /\ editingComment' = ann.comment
              /\ editingTags' = ann.tags
    /\ UNCHANGED <<dom, codecVars, pc, layoutVars, doc, mountDoc, annotations,
                   docStatus, serverVars, clock, ops>>

\* a click on a mark whose annotation is in the store and is not the active
\* one opens the popover on it; the click goes no further
ClickHighlight ==
    /\ \E m \in {AllMarks(dom)[i] : i \in 1..Len(AllMarks(dom))} :
          LET id == dom[m].annId
              found == SelectSeq(annotations, LAMBDA a : a._id = id)
          IN  /\ found # <<>>
              /\ activeAnnotation # id
              /\ activeAnnotation' = id
              /\ editingComment' = found[1].comment
              /\ editingTags' = found[1].tags
    /\ UNCHANGED <<dom, codecVars, pc, layoutVars, doc, mountDoc, annotations,
                   docStatus, serverVars, clock, ops>>

\* performSave's effect on the page: the store replaced and rendered, the
\* request submitted
Saved(ps) ==
    /\ net' = FetcherSend(net, ps.request)
    /\ IF ps.changed
       THEN Rendered(dom, ps.annotations, doc)
       ELSE UNCHANGED <<dom, annotations, layoutVars>>

\* the document click handler with a popover open and the click outside it:
\* autosave through the performSave of the first render, then the popover
\* closes unless the click was on a mark (closes = FALSE)
Autosave(closes) ==
    /\ activeAnnotation # NoId
    /\ IF ~IsTemp(activeAnnotation) \/ activeAnnotation = Placeholder
       THEN /\ Spend
            /\ clock' = clock + 1
            /\ Saved(performSave(annotations, activeAnnotation, editingComment,
                                 editingTags, mountDoc, clock + 1))
       ELSE /\ closes
            /\ UNCHANGED <<dom, annotations, layoutVars, net, clock, ops>>
    /\ IF closes
       THEN activeAnnotation' = NoId /\ editingTags' = <<>>
       ELSE UNCHANGED <<activeAnnotation, editingTags>>
    /\ UNCHANGED <<codecVars, pc, doc, mountDoc, editingComment, docStatus,
                   fetcherData, db, nextOid>>

ClickOutside == Autosave(TRUE)

\* a click on a mark that opens nothing: its annotation is the active one or
\* is not in the store
ClickSameHighlight ==
    /\ \E m \in {AllMarks(dom)[i] : i \in 1..Len(AllMarks(dom))} :
          \/ dom[m].annId = activeAnnotation
          \/ \A i \in 1..Len(annotations) : annotations[i]._id # dom[m].annId
    /\ Autosave(FALSE)

\* typing in the popover's comment box
EditComment ==
    /\ activeAnnotation # NoId
    /\ editingComment' \in Comments \ {editingComment}
    /\ UNCHANGED <<dom, codecVars, pc, layoutVars, doc, mountDoc, annotations,
                   activeAnnotation, editingTags, docStatus, serverVars, clock, ops>>

\* the popover's Clear button, shown for the general note
ClearGeneral ==
    /\ activeAnnotation # NoId
    /\ PopoverIsGeneral(annotations, activeAnnotation)
    /\ editingComment # ""
    /\ editingComment' = ""
    /\ editingTags' = <<>>
    /\ UNCHANGED <<dom, codecVars, pc, layoutVars, doc, mountDoc, annotations,
                   activeAnnotation, docStatus, serverVars, clock, ops>>

\* the popover's Delete button, shown when the popover is not the general
\* note's: deleteAnnotation
DeleteAnnotation ==
    /\ activeAnnotation # NoId
    /\ ~PopoverIsGeneral(annotations, activeAnnotation)
    /\ Spend
    /\ net' = FetcherSend(net,
                  Req("annotation", "delete", "", activeAnnotation, NoAnchor, <<>>,
                      "", "", <<>>, "", "", ""))
    /\ dom' = Canon(Unhighlight(dom, activeAnnotation))
    /\ activeAnnotation' = NoId
    /\ UNCHANGED <<codecVars, pc, layoutVars, doc, mountDoc, annotations,
                   editingComment, editingTags, docStatus, fetcherData, db,
                   nextOid, clock>>

\* statusFetcher.submit: the router cancels the loads its fetchers have in
\* flight when an action is submitted, and runs them again once the action
\* has completed
StatusSubmit(n, req) ==
    FetcherSend({r \in n : ~(r.intent = "load" /\ r.live)}, req)

StatusReq(intent, docId, tag, field, value) ==
    Req("status", intent, docId, NoId, NoAnchor, <<>>, "", "", <<>>, tag, field, value)

\* toggleStatus(field), clicked with no popover open
ToggleStatus ==
    /\ activeAnnotation = NoId
    /\ Spend
    /\ \E field \in StatusFields :
          /\ docStatus' = [docStatus EXCEPT ![field] = ~@]
          /\ net' = StatusSubmit(net,
                        StatusReq("toggleStatus", doc, "", field,
                                  BoolString(~docStatus[field])))
    /\ UNCHANGED <<dom, codecVars, pc, layoutVars, doc, mountDoc, annotations,
                   popoverVars, fetcherData, db, nextOid, clock>>

\* addTag(tag), typed into the header's tag input with no popover open
AddTag ==
    /\ activeAnnotation = NoId
    /\ \E tag \in TagNames :
          /\ \A i \in 1..Len(docStatus.tags) : docStatus.tags[i] # tag
          /\ Spend
          /\ docStatus' = [docStatus EXCEPT !.tags = Append(@, tag)]
          /\ net' = StatusSubmit(net, StatusReq("addTag", doc, tag, "", ""))
    /\ UNCHANGED <<dom, codecVars, pc, layoutVars, doc, mountDoc, annotations,
                   popoverVars, fetcherData, db, nextOid, clock>>

\* removeTag(tag), the button on a tag the header shows
RemoveTag ==
    /\ activeAnnotation = NoId
    /\ \E i \in 1..Len(docStatus.tags) :
          /\ Spend
          /\ docStatus' = [docStatus EXCEPT !.tags = Pull(@, docStatus.tags[i])]
          /\ net' = StatusSubmit(net,
                        StatusReq("removeTag", doc, docStatus.tags[i], "", ""))
    /\ UNCHANGED <<dom, codecVars, pc, layoutVars, doc, mountDoc, annotations,
                   popoverVars, fetcherData, db, nextOid, clock>>

\* client-side navigation to the other document (history back/forward): the
\* component stays mounted; the article is rendered anew; the store is
\* cleared, the fetcher's last data filtered for the new document, and the
\* list requested
Navigate ==
    /\ Spend
    /\ \E d \in Docs \ {doc} :
          /\ doc' = d
          /\ docStatus' = StatusOf(db, d)
          /\ net' = FetcherSend(net, LoadReq(d))
          /\ Rendered(SetInnerHTML(dom, d),
                      IF fetcherData.kind = "list"
                      THEN RelevantAnnotations(fetcherData.annotations, d)
                      ELSE <<>>,
                      d)
    /\ UNCHANGED <<codecVars, pc, mountDoc, popoverVars, fetcherData, db,
                   nextOid, clock>>

\* a full page load of the document being viewed: a new mount
Reload ==
    /\ Spend
    /\ mountDoc' = doc
    /\ docStatus' = StatusOf(db, doc)
    /\ net' = {[r EXCEPT !.live = FALSE] : r \in {q \in net : q.intent # "load"}}
              \cup {LoadReq(doc)}
    /\ fetcherData' = NoData
    /\ activeAnnotation' = NoId
    /\ editingComment' = ""
    /\ editingTags' = <<>>
    /\ annotations' = <<>>
    /\ Show(ViewOf(HighlightEffect(PristineDom(doc), <<>>, doc), NoOffsets))
    /\ UNCHANGED <<codecVars, pc, doc, db, nextOid, clock>>

\* mutant: a fetched list is merged into the store
DeliveredMerged(rest, data) ==
    /\ fetcherData' = data
    /\ net' = IF data.kind = "success" THEN FetcherSend(rest, LoadReq(doc)) ELSE rest
    /\ IF data.kind = "list"
       THEN Rendered(dom,
                     SelectSeq(annotations, LAMBDA a : a._id.k # "oid")
                         \o RelevantAnnotations(data.annotations, doc),
                     doc)
       ELSE UNCHANGED <<dom, annotations, layoutVars>>

\* mutant: a success is taken and the list is not requested again
DeliveredNoReload(rest, data) ==
    /\ fetcherData' = data
    /\ net' = rest
    /\ IF data.kind = "list"
       THEN Rendered(dom, RelevantAnnotations(data.annotations, doc), doc)
       ELSE UNCHANGED <<dom, annotations, layoutVars>>

\* the response of the annotation fetcher's current request reaches the page:
\* a list replaces the store (filtered for the document viewed), a success
\* requests the list again
Delivered(rest, data) ==
    /\ fetcherData' = data
    /\ net' = IF data.kind = "success" THEN FetcherSend(rest, LoadReq(doc)) ELSE rest
    /\ IF data.kind = "list"
       THEN Rendered(dom, RelevantAnnotations(data.annotations, doc), doc)
       ELSE UNCHANGED <<dom, annotations, layoutVars>>

\* the annotation fetcher's last call was a load (not a submit that is in
\* flight or that failed): the load the router runs again when it revalidates
LoadActive(n, data) ==
    /\ data.kind # "error"
    /\ \A r \in n : ~(r.fetcher = "annotation" /\ r.live /\ r.intent # "load")

\* the response of the status fetcher's current request: nothing on the page
\* reads it; the router revalidates, which runs the annotation fetcher's load
\* again
Revalidated(rest) ==
    /\ net' = IF LoadActive(rest, fetcherData)
              THEN FetcherSend(rest, LoadReq(doc)) ELSE rest
    /\ UNCHANGED <<dom, annotations, layoutVars, fetcherData>>

Handled(req, out) ==
    /\ db' = out.db
    /\ nextOid' = out.nextOid
    /\ IF req.live /\ req.fetcher = "annotation"
       THEN Delivered(net \ {req}, out.data)
       ELSE IF req.live
       THEN Revalidated(net \ {req})
       ELSE /\ net' = net \ {req}
            /\ UNCHANGED <<dom, annotations, layoutVars, fetcherData>>
    /\ docStatus' = IF req.live /\ req.intent # "load"
                    THEN StatusOf(out.db, doc) ELSE docStatus

\* the server handles one request; the page takes the response of a request
\* that is still its fetcher's current one, and the route revalidates after
\* an action
ServerHandle ==
    /\ \E req \in net : Handled(req, ServerApply(db, nextOid, req))
    /\ UNCHANGED <<codecVars, pc, doc, mountDoc, popoverVars, clock, ops>>

Next ==
    \/ SaveAnnotation
    \/ ClickCard
    \/ ClickHighlight
    \/ ClickOutside
    \/ ClickSameHighlight
    \/ EditComment
    \/ ClearGeneral
    \/ DeleteAnnotation
    \/ ToggleStatus
    \/ AddTag
    \/ RemoveTag
    \/ Navigate
    \/ Reload
    \/ ServerHandle

Spec == Init /\ [][Next]_vars

\* ----------------------------------------------------------- server runs
\* The action of /api/annotations on its own: a collection as earlier
\* requests left it, and the requests the page can send, one at a time.
TagLists == {<<>>, <<"t">>}
Fields == {"read", "liked"}

StoredGenerals(docId, n) ==
    {[Ann(Oid(n), docId, NoAnchor, <<>>, "#e5e7eb", c, ts, FALSE)
         EXCEPT !.read = r, !.liked = l] :
        c \in Comments, ts \in TagLists, r \in BOOLEAN, l \in BOOLEAN}

StoredSpan(docId, n) ==
    Ann(Oid(n), docId, SomeAnchor, <<"a">>, Green, "", <<>>, FALSE)

ServerCollections ==
    {<<>>, <<StoredSpan("X", 1)>>}
        \cup {<<g>> : g \in StoredGenerals("X", 1)}
        \cup {<<StoredSpan("X", 1), g>> : g \in StoredGenerals("X", 2)}
        \cup {<<g, h>> : g \in StoredGenerals("Y", 1), h \in StoredGenerals("X", 2)}

\* what the page submits: saveAnnotation, deleteAnnotation, performSave on a
\* record's id or on the placeholder, toggleStatus, addTag, removeTag, and the
\* load of the list
PageRequests(records) ==
    LET ids == {records[i]._id : i \in 1..Len(records)}
    IN  {LoadReq(d) : d \in Docs}
        \cup {CreateReq(d, SomeAnchor) : d \in Docs}
        \cup {Req("annotation", "delete", "", id, NoAnchor, <<>>, "", "", <<>>,
                  "", "", "") : id \in ids}
        \cup {performSave(records, id, c, ts, d, 0).request :
                 id \in ids \cup {Placeholder}, c \in Comments, ts \in TagLists,
                 d \in Docs}
        \cup {StatusReq("toggleStatus", d, "", f, BoolString(b)) :
                 d \in Docs, f \in Fields, b \in BOOLEAN}
        \cup {StatusReq(i, d, t, "", "") :
                 i \in {"addTag", "removeTag"}, d \in Docs, t \in TagNames}

ServerInit ==
    /\ dom = DocX
    /\ selection = NullRange
    /\ anchor = NoAnchor
    /\ resolved = NotResolved
    /\ pc = "server"
    /\ LayoutIdle
    /\ doc = "X"
    /\ mountDoc = "X"
    /\ annotations = <<>>
    /\ activeAnnotation = NoId
    /\ editingComment = ""
    /\ editingTags = <<>>
    /\ docStatus = NoStatus
    /\ fetcherData = NoData
    /\ net = {}
    /\ db \in ServerCollections
    /\ nextOid = Len(db) + 1
    /\ clock = 0
    /\ ops = 0

\* a request reaches the server
ServerReceive ==
    /\ net = {}
    /\ ops < MaxRequests
    /\ \E req \in PageRequests(db) : net' = {req}
    /\ UNCHANGED <<dom, codecVars, pc, layoutVars, doc, mountDoc, annotations,
                   popoverVars, docStatus, fetcherData, db, nextOid, clock, ops>>

Responded(out) ==
    /\ db' = out.db
    /\ nextOid' = out.nextOid
    /\ fetcherData' = out.data

\* the loader / action runs on it and responds
ServerRespond ==
    /\ \E req \in net : Responded(ServerApply(db, nextOid, req))
    /\ net' = {}
    /\ ops' = ops + 1
    /\ UNCHANGED <<dom, codecVars, pc, layoutVars, doc, mountDoc, annotations,
                   popoverVars, docStatus, clock>>

ServerNext ==
    \/ ServerReceive
    \/ ServerRespond

SpecServer == ServerInit /\ [][ServerNext]_vars


\* ---------------------------------------------------------------- claims
Submitted == {r \in net' : r.live /\ r \notin net}

MarkIds(d) == {d[AllMarks(d)[i]].annId : i \in 1..Len(AllMarks(d))}

\* the text each mark of the annotation wraps, in document order
MarkTexts(d, id) ==
    [i \in 1..Len(MarksOf(d, id)) |->
        Concat([j \in 1..Len(TextNodes(d, MarksOf(d, id)[i])) |->
                   d[TextNodes(d, MarksOf(d, id)[i])[j]].data])]

\* C2: while a document is viewed, every side-note card is the placeholder or
\* an entry of that document, and no mark in the article carries the id of a
\* stored annotation of another document.
C2_OnlyViewedDocument ==
    /\ \A i \in 1..Len(positionedAnnotations) :
          \/ positionedAnnotations[i]._id = Placeholder
          \/ positionedAnnotations[i].documentId = doc
    /\ \A id \in MarkIds(dom) :
          \A i \in 1..Len(db) : db[i]._id = id => db[i].documentId = doc

\* C4: a highlight pass that runs over an article in which an annotation
\* already has marks leaves that annotation's marks as they are: the same
\* marks wrapping the same text, none added, none nested.
C4_Idempotent ==
    [][(Autosave(TRUE) \/ Autosave(FALSE) \/ ServerHandle)
          => \A id \in MarkIds(dom) : MarkTexts(dom', id) = MarkTexts(dom, id)]_vars

\* the highlight pass has re-run (the autosave of a comment, the only
\* operation so far) over an annotation that was already marked
C4_Witness ==
    /\ ops = 1
    /\ \E i \in 1..Len(annotations) :
          /\ annotations[i].range # NoAnchor
          /\ annotations[i].comment = "n"
          /\ MarkTexts(dom, annotations[i]._id) = <<annotations[i].text>>

\* a fresh render of stored records, applied in list order: every record with
\* a range resolves to a range whose text is the text recorded with it
RECURSIVE FreshResolves(_, _)
RECURSIVE FreshResolved(_, _, _)
FreshResolves(d, anns) ==
    IF anns = <<>> THEN TRUE
    ELSE IF Head(anns).range = NoAnchor THEN FreshResolves(d, Tail(anns))
    ELSE FreshResolved(d, anns, deserializeRange(d, Head(anns).range, Root))
FreshResolved(d, anns, range) ==
    /\ range # NullRange
    /\ range # ThrownRange
    /\ RangeToString(d, range) = Head(anns).text
    /\ FreshResolves(highlightRange(d, range, Head(anns)._id, Head(anns).color).dom,
                     Tail(anns))

\* C7: whatever has been created and deleted, every stored annotation of a
\* document resolves, on a fresh render of that document, to the text that
\* was recorded when it was saved.
C7_Durable == \A d \in Docs : FreshResolves(PristineDom(d), Find(db, d))

\* C8: a save of the general note submits upsertGeneral with the id of the
\* document being viewed, and the store holds records of that document only.
C8_ViewedDocument ==
    [][/\ \A r \in Submitted : r.intent = "upsertGeneral" => r.documentId = doc'
       /\ \A i \in 1..Len(annotations') : annotations'[i].documentId = doc']_vars

\* C9: a general-note record (range null) on the server stays on the server.
C9_GeneralStays ==
    [][\A i \in 1..Len(db) :
          db[i].range = NoAnchor => \E j \in 1..Len(db') : db'[j]._id = db[i]._id]_vars

\* the store shows what request r asks for
Reflected(anns, r) ==
    CASE r.intent = "create" ->
           \E i \in 1..Len(anns) : anns[i].range = r.range /\ IsTemp(anns[i]._id)
      [] r.intent = "delete" ->
           \A i \in 1..Len(anns) : anns[i]._id # r.annotationId
      [] r.intent = "update" ->
           \A i \in 1..Len(anns) :
              anns[i]._id = r.annotationId
                 => anns[i].comment = r.comment /\ anns[i].tags = r.tags
      [] r.intent = "upsertGeneral" ->
           /\ anns # <<>>
           /\ IsTemp(anns[Len(anns)]._id)
           /\ anns[Len(anns)].range = NoAnchor
           /\ anns[Len(anns)].comment = r.comment
           /\ anns[Len(anns)].tags = r.tags
           /\ anns[Len(anns)].documentId = r.documentId
      [] r.intent = "toggleStatus" ->
           \E i \in 1..Len(anns) :
              anns[i].range = NoAnchor /\ anns[i][r.field] = IsTrueString(r.value)
      [] OTHER -> TRUE

\* C10 as stated: every mutation (create, update, delete, toggle) shows in
\* the in-memory annotation list in the step that submits its request.
C10_EveryMutationOptimistic ==
    [][\A r \in Submitted : Reflected(annotations', r)]_vars

\* C10, amended: in the step that submits its request, an update shows in the
\* list and a general-note save enters a record under a temporary id; a
\* create and a delete leave the list as it is (a delete removes the marks
\* from the article), and a toggle changes docStatus, not the list.
C10_OptimisticSaves ==
    [][\A r \in Submitted :
          CASE r.intent \in {"update", "upsertGeneral"} -> Reflected(annotations', r)
            [] r.intent = "create" -> annotations' = annotations
            [] r.intent = "delete" ->
                 /\ annotations' = annotations
                 /\ MarksOf(dom', r.annotationId) = <<>>
            [] r.intent = "toggleStatus" ->
                 /\ annotations' = annotations
                 /\ docStatus'[r.field] = IsTrueString(r.value)
            [] OTHER -> TRUE]_vars

\* a general-note save has just been submitted and its temporary record is
\* the last of the store
C10_Witness ==
    /\ annotations # <<>>
    /\ annotations[Len(annotations)]._id = TempGeneral(clock)
    /\ \E r \in net :
          /\ r.live
          /\ r.intent = "upsertGeneral"
          /\ r.comment = annotations[Len(annotations)].comment

\* the step is the server's handling of request req
Handles(req) == ops' = ops /\ Handled(req, ServerApply(db, nextOid, req))

Succeeds(req) ==
    req.intent # "load" /\ ServerApply(db, nextOid, req).data.kind = "success"

\* the list of the viewed document is being fetched
Refetching(n, docId) == \E r \in n : r.live /\ r = LoadReq(docId)

\* C11 as stated: whenever the response to a mutation (create, update, delete,
\* upsertGeneral, toggleStatus, addTag, removeTag) reports success to the page,
\* the list of the viewed document is fetched again, and when a fetched list is
\* applied the store is exactly the server's records of the viewed document.
C11_ResyncOnEverySuccess ==
    [][\A req \in net :
          Handles(req) /\ req.live
             => /\ Succeeds(req) => Refetching(net', doc)
                /\ req.intent = "load" => annotations' = Find(db, doc)]_vars

\* C11, amended: a success that reaches the annotation fetcher (create,
\* update, delete, upsertGeneral) has the page request the list of the viewed
\* document in the same step.  A success of toggleStatus, addTag or removeTag
\* reaches the status fetcher, which the page does not read: store and fetcher
\* data stay as they are, and the list is fetched again only by the router's
\* revalidation of the annotation fetcher's load, so not while a mutation of
\* the annotation fetcher is in flight.  A list that is applied replaces the
\* store by exactly the server's records of the viewed document.
C11_ResyncOnAnnotationSuccess ==
    [][\A req \in net :
          Handles(req) /\ req.live
             => /\ (Succeeds(req) /\ req.fetcher = "annotation")
                     => Refetching(net', doc)
                /\ (Succeeds(req) /\ req.fetcher = "status")
                     => /\ annotations' = annotations
                        /\ fetcherData' = fetcherData
                        /\ Refetching(net', doc)
                              <=> LoadActive(net \ {req}, fetcherData)
                /\ req.intent = "load"
                     => /\ annotations' = Find(db, doc)
                        /\ fetcherData' = ListData(Find(db, doc))]_vars

\* a highlight created in this session has come back with the re-fetched list
C11_Witness ==
    /\ net = {}
    /\ nextOid = 2
    /\ fetcherData.kind = "list"
    /\ Len(annotations) = 1
    /\ annotations = db
    /\ annotations[1].range # NoAnchor

\* the records of the store that the server has not given an identity
Temporaries(anns) == {i \in 1..Len(anns) : anns[i]._id.k # "oid"}

OneTemporaryPerSlot(anns) ==
    /\ \A i \in Temporaries(anns) : IsTemp(anns[i]._id)
    /\ \A i, j \in Temporaries(anns) :
          (anns[i].range = anns[j].range /\ anns[i].documentId = anns[j].documentId)
             => i = j
    /\ Cardinality({i \in Temporaries(anns) : anns[i].range = NoAnchor}) <= 1

\* C12: the store holds at most one temporary record per slot (one general
\* note, one per created highlight), every temporary record's id has the
\* temp- prefix, and when a fetched list is applied no temporary record
\* remains in the store.
C12_Temporaries ==
    /\ []OneTemporaryPerSlot(annotations)
    /\ [][\A req \in net :
             (Handles(req) /\ req.live /\ req.intent = "load")
                => Temporaries(annotations') = {}]_vars

\* the general note saved in this session under a temporary id has come back
\* from the server under its ObjectId, and the temporary record is gone
C12_Witness ==
    /\ fetcherData.kind = "list"
    /\ nextOid = 2
    /\ Len(annotations) = 1
    /\ annotations[1]._id = Oid(1)
    /\ annotations[1].range = NoAnchor
    /\ annotations[1].comment = "n"
    /\ clock = 1

\* the general-note records of the store for a document
GeneralsOf(anns, docId) ==
    {i \in 1..Len(anns) : anns[i].range = NoAnchor /\ anns[i].documentId = docId}

\* C13: the store holds at most one general-note record (no range) of the
\* viewed document, server-confirmed and temporary records counted together.
C13_OneGeneralNote == Cardinality(GeneralsOf(annotations, doc)) <= 1

Chars(text) == {text[i] : i \in 1..Len(text)}

\* the view after two highlights of different text, each inside one text
\* node, were created on the viewed document and the list holding both has
\* been fetched and applied
TwoHighlightsShown ==
    /\ net = {}
    /\ fetcherData.kind = "list"
    /\ Len(db) = 2
    /\ annotations = db
    /\ \A i \in 1..2 : db[i].range # NoAnchor /\ db[i].documentId = doc
    /\ \A i \in 1..2 : db[i].range.startPath = db[i].range.endPath
    /\ Chars(db[1].text) \cap Chars(db[2].text) = {}

SpanCards == SelectSeq(positionedAnnotations, IsSpan)

\* C14 (scenario B): two selections of the same document saved back-to-back,
\* in either order and whether or not the first was painted when the second
\* was serialized, give after the re-fetch two marks with distinct ids and two
\* cards, with indices 1 and 2 in document order.
C14_ScenarioB ==
    TwoHighlightsShown
        => /\ \A i \in 1..2 : MarkTexts(dom, db[i]._id) = <<db[i].text>>
           /\ db[1]._id # db[2]._id
           /\ Len(SpanCards) = 2
           /\ {SpanCards[i]._id : i \in 1..2} = {db[1]._id, db[2]._id}
           /\ \A i \in 1..2 : SpanCards[i].index = i
           /\ Pos(dom, QueryMark(dom, SpanCards[1]._id))
                 < Pos(dom, QueryMark(dom, SpanCards[2]._id))

\* the view after one highlight, selected inside one text node, was created
\* on the viewed document (the only record of the collection) and the list
\* has been fetched and applied
OneHighlightShown ==
    /\ net = {}
    /\ fetcherData.kind = "list"
    /\ Len(db) = 1
    /\ annotations = db
    /\ db[1].range # NoAnchor
    /\ db[1].documentId = doc
    /\ db[1].range.startPath = db[1].range.endPath

GeneralsAt(records, docId) ==
    {i \in 1..Len(records) :
        records[i].documentId = docId /\ records[i].range = NoAnchor}

\* the server answers the request in this step
Answers(req) == req \in net /\ ops' = ops + 1

\* the records are the same but for the named field
SameBut(r1, r2, field) ==
    \A f \in DOMAIN r1 : f # field => r1[f] = r2[f]

\* C16 (scenario C): a toggleStatus request for a document without a general
\* note adds exactly one record, with range = null, the toggled flag at the
\* requested value, an empty comment and no tags; for a document with a
\* general note no record is added and nothing but the toggled flag of that
\* note changes.
C16_ScenarioC ==
    [][\A req \in net :
          (Answers(req) /\ req.intent = "toggleStatus")
              => IF GeneralsAt(db, req.documentId) = {}
                 THEN /\ Len(db') = Len(db) + 1
                      /\ SubSeq(db', 1, Len(db)) = db
                      /\ db'[Len(db')].documentId = req.documentId
                      /\ db'[Len(db')].range = NoAnchor
                      /\ db'[Len(db')][req.field] = IsTrueString(req.value)
                      /\ db'[Len(db')].comment = ""
                      /\ db'[Len(db')].tags = <<>>
                 ELSE /\ Len(db') = Len(db)
                      /\ \A i \in 1..Len(db) :
                            IF i \in GeneralsAt(db, req.documentId)
                            THEN /\ SameBut(db[i], db'[i], req.field)
                                 /\ db'[i][req.field] = IsTrueString(req.value)
                            ELSE db'[i] = db[i]]_vars

\* "liked" was toggled on for document Y, which had no general note
C16_Witness ==
    /\ pc = "server"
    /\ ops = 1
    /\ fetcherData.kind = "success"
    /\ Len(db) = 2
    /\ db[1] = StoredSpan("X", 1)
    /\ db[2].documentId = "Y"
    /\ db[2].range = NoAnchor
    /\ db[2].liked
    /\ ~db[2].read
    /\ db[2].comment = ""
    /\ db[2].tags = <<>>

\* the entries of a positioned list that are no highlights
GeneralIndexes(ps) == {i \in 1..Len(ps) : ~IsSpan(ps[i])}

\* the records without a range that the store holds for the viewed document
StoredGeneralNotes ==
    SelectSeq(RelevantAnnotations(annotations, doc), LAMBDA a : a.range = NoAnchor)

\* C17: after every position computation the positioned list holds exactly
\* one general-note entry, it is the first entry and its index is 0, whatever
\* its top and the tops of the highlights; on the page it is a general note of
\* the store, or the placeholder when the store has none.
C17_OneGeneralEntryFirst ==
    /\ pc \in {"positioned", "page"}
          => /\ GeneralIndexes(positionedAnnotations) = {1}
             /\ positionedAnnotations[1].isGeneral
             /\ positionedAnnotations[1].index = 0
    /\ pc = "page"
          => IF StoredGeneralNotes = <<>>
             THEN positionedAnnotations[1]._id = Placeholder
             ELSE \E i \in 1..Len(StoredGeneralNotes) :
                     /\ positionedAnnotations[1]._id = StoredGeneralNotes[i]._id
                     /\ positionedAnnotations[1].comment = StoredGeneralNotes[i].comment

\* the stored general note leads a highlight whose raw top is not below its own
C17_Witness ==
    /\ pc = "page"
    /\ Len(positionedAnnotations) >= 2
    /\ positionedAnnotations[1]._id.k = "oid"
    /\ positionedAnnotations[2].top <= positionedAnnotations[1].top

\* the anchor of the highlight resolves in the article and encloses text
Resolves(d, a) ==
    LET range == deserializeRange(d, a.range, Root)
    IN  /\ range # NullRange
        /\ range # ThrownRange
        /\ highlightRange(d, range, a._id, a.color).marks # <<>>

\* the records of the list that are shown: the general notes and the
\* highlights that have a mark in the article
Displayed(d, anns) ==
    SelectSeq(anns, LAMBDA a : a.range = NoAnchor \/ MarksOf(d, a._id) # <<>>)

\* the article as the pass found it when it came to the i-th record, had the
\* records without a mark not been in the list
ArticleAt(before, after, anns, i) ==
    HighlightAll(before, Displayed(after, SubSeq(anns, 1, i - 1))).dom

\* the view after a pass over anns that began on the article `before`: he
\* is the pass over the records shown alone
Isolated(before, after, anns, shown, he, cards) ==
    /\ \A i \in 1..Len(anns) :
          (anns[i].range # NoAnchor /\ MarksOf(after, anns[i]._id) = <<>>)
              => /\ ~Resolves(ArticleAt(before, after, anns, i), anns[i])
                 /\ \A k \in 1..Len(cards) : cards[k]._id # anns[i]._id
    /\ after = Canon(he.dom)
    /\ cards = he.positioned
    /\ {cards[k]._id : k \in {j \in 1..Len(cards) : IsSpan(cards[j])}}
           = {shown[k]._id : k \in {j \in 1..Len(shown) : shown[j].range # NoAnchor}}
    /\ {cards[k].index : k \in {j \in 1..Len(cards) : IsSpan(cards[j])}}
           = 1..Cardinality({j \in 1..Len(cards) : IsSpan(cards[j])})

IsolatedPass(before, after, anns, shown, docId, cards) ==
    Isolated(before, after, anns, shown, HighlightEffect(before, shown, docId), cards)

Unmarked(d, anns) ==
    {i \in 1..Len(anns) : anns[i].range # NoAnchor /\ MarksOf(d, anns[i]._id) = <<>>}

SameOutside(r1, r2, fields) ==
    \A f \in DOMAIN r1 \ fields : r1[f] = r2[f]

\* the general notes a request is about: the one of its document, or, for an
\* update, the one with its id
TargetsOf(records, req) ==
    IF req.intent = "update"
    THEN {i \in 1..Len(records) :
             records[i]._id = req.annotationId /\ records[i].range = NoAnchor}
    ELSE GeneralsAt(records, req.documentId)

\* the fields a general-note mutation is about
FieldsOf(req) ==
    CASE req.intent \in {"upsertGeneral", "update"} -> {"comment", "tags", "color"}
      [] req.intent = "toggleStatus" -> {req.field}
      [] req.intent \in {"addTag", "removeTag"} -> {"tags"}

\* C19 (frame): a mutation of an existing general note keeps the record and
\* every other record; upsertGeneral and update change its comment and tags
\* (and reset its color) and keep read and liked; toggleStatus changes the
\* toggled flag only; addTag and removeTag change the tags only.
C19_Frame ==
    [][\A req \in net :
          (/\ Answers(req)
           /\ req.intent \in {"upsertGeneral", "update", "toggleStatus", "addTag",
                              "removeTag"}
           /\ TargetsOf(db, req) # {})
              => /\ Len(db') = Len(db)
                 /\ \A i \in 1..Len(db) :
                       IF i \in TargetsOf(db, req)
                       THEN /\ SameOutside(db[i], db'[i], FieldsOf(req))
                            /\ req.intent \in {"upsertGeneral", "update"}
                                  => /\ db'[i].comment = req.comment
                                     /\ db'[i].tags = req.tags
                            /\ req.intent = "toggleStatus"
                                  => db'[i][req.field] = IsTrueString(req.value)
                            /\ req.intent = "addTag"
                                  => {db'[i].tags[k] : k \in 1..Len(db'[i].tags)}
                                       = {db[i].tags[k] : k \in 1..Len(db[i].tags)}
                                             \cup {req.tag}
                            /\ req.intent = "removeTag"
                                  => {db'[i].tags[k] : k \in 1..Len(db'[i].tags)}
                                       = {db[i].tags[k] : k \in 1..Len(db[i].tags)}
                                             \ {req.tag}
                       ELSE db'[i] = db[i]]_vars

\* a general note with both flags set after its comment and tags were saved
C19_Witness ==
    /\ pc = "server"
    /\ ops = 1
    /\ fetcherData.kind = "success"
    /\ Len(db) = 2
    /\ db[1] = StoredSpan("X", 1)
    /\ db[2].range = NoAnchor
    /\ db[2].read
    /\ db[2].liked
    /\ db[2].comment = "n"
    /\ db[2].tags = <<"t">>

\* every request has been answered and the last answer was no error
Settled == net = {} /\ fetcherData.kind # "error"

\* C20 (no lasting divergence): once every outstanding request has been
\* answered, none with an error, the store is the server's list of the
\* annotations of the document viewed.
C20_NoLastingDivergence ==
    Settled => annotations = Find(db, doc)

\* C21: after any sequence of the requests the page can send, the collection
\* holds at most one record without a range for each document.
C21_OneGeneralPerDocument ==
    \A d \in Docs : Cardinality(GeneralsAt(db, d)) <= 1

\* Y's general note was created by one request and changed by the next
C21_Witness ==
    /\ pc = "server"
    /\ ops = 2
    /\ Len(db) = 2
    /\ db[1] = StoredSpan("X", 1)
    /\ db[2].documentId = "Y"
    /\ db[2].range = NoAnchor
    /\ db[2].liked
    /\ db[2].comment = "n"
    /\ db[2].tags = <<"t">>

\* node.textContent
TextContent(d, n) ==
    Concat([i \in 1..Len(TextNodes(d, n)) |-> d[TextNodes(d, n)[i]].data])

\* the characters of the article that precede node n
ArticleCharsBefore(d, n) == CharsBefore(d, TextNodes(d, Root), n)

\* what highlightRange(range, id, color) made of article `d`: hl is its result
WrapsRange(d, range, id, color, hl) ==
    LET from == ArticleCharsBefore(d, range.sc) + range.so
        to == from + Len(RangeToString(d, range))
    IN  /\ Concat([i \in 1..Len(hl.marks) |-> TextContent(hl.dom, hl.marks[i])])
               = RangeToString(d, range)
        /\ TextContent(hl.dom, Root) = TextContent(d, Root)
        /\ \A i \in 1..Len(hl.marks) :
              /\ hl.dom[hl.marks[i]].tag = "mark"
              /\ hl.dom[hl.marks[i]].annId = id
              /\ hl.dom[hl.marks[i]].color = color
              /\ Len(hl.dom[hl.marks[i]].kids) = 1
              /\ IsText(hl.dom, hl.dom[hl.marks[i]].kids[1])
              /\ TextContent(hl.dom, hl.marks[i]) # <<>>
              /\ ArticleCharsBefore(hl.dom, hl.marks[i]) >= from
              /\ ArticleCharsBefore(hl.dom, hl.marks[i])
                     + Len(TextContent(hl.dom, hl.marks[i])) <= to
              /\ \A j \in (i + 1)..Len(hl.marks) :
                    Pos(hl.dom, hl.marks[i]) < Pos(hl.dom, hl.marks[j])
        /\ Len(hl.marks)
               = Cardinality({t \in {TextNodes(d, Root)[i] :
                                        i \in 1..Len(TextNodes(d, Root))} :
                                 TextInRange(d, range, t) # <<>>})
        /\ Len(AllMarks(hl.dom)) = Len(AllMarks(d)) + Len(hl.marks)

\* C22: for every range a user can select in an article (as rendered, or with
\* a highlight painted already), highlightRange
\* makes one mark for each text node that has characters inside the range,
\* around exactly those characters and none for an empty part; every mark
\* carries the given id and color; the marks' texts, in document order, add up
\* to the range's text, and the article's text is unchanged.
C22_WrapsExactlyTheRange ==
    pc = "fresh"
        => \A r \in UserRanges(dom) :
              WrapsRange(dom, r, Oid(MaxCodecMarks + 1), Green,
                         highlightRange(dom, r, Oid(MaxCodecMarks + 1), Green))

\* a selection from one text node into the next was wrapped: two marks of one
\* annotation, the first around the end of its text node only
C22_Witness ==
    /\ pc = "fresh"
    /\ Len(MarksOf(dom, Oid(1))) = 2
    /\ TextContent(dom, MarksOf(dom, Oid(1))[1]) = <<"b">>
    /\ TextContent(dom, MarksOf(dom, Oid(1))[2]) = <<"c">>
    /\ TextContent(dom, Root) = <<"a", "b", "c", "d">>

\* the article after range was highlighted under id and that highlight removed
Removed(d, range, id) ==
    Unhighlight(highlightRange(d, range, id, Green).dom, id)

\* C23: highlighting a range and then removing that highlight leaves no mark
\* of its id, leaves the article's text unchanged and restores the child-node
\* structure the article had before the highlight.
C23_RemovalRestores ==
    pc = "fresh"
        => \A r \in UserRanges(dom) :
              /\ MarksOf(Canon(Removed(dom, r, Oid(MaxCodecMarks + 1))),
                         Oid(MaxCodecMarks + 1)) = <<>>
              /\ TextContent(Removed(dom, r, Oid(MaxCodecMarks + 1)), Root)
                     = TextContent(dom, Root)
              /\ Canon(Removed(dom, r, Oid(MaxCodecMarks + 1))) = Canon(dom)

\* the cards of the highlights that have a server id
ServerCards ==
    SelectSeq(positionedAnnotations, LAMBDA p : IsSpan(p) /\ p._id.k = "oid")

\* no mark of a positioned highlight carries an index other than its card's
NoOtherIndex ==
    \A k \in 1..Len(ServerCards) :
        \A i \in 1..Len(MarksOf(dom, ServerCards[k]._id)) :
            dom[MarksOf(dom, ServerCards[k]._id)[i]].index \in {0, ServerCards[k].index}

\* C24 as stated: every mark of a positioned highlight with a server id
\* carries the index shown on its card, and no mark of it carries another one.
C24_IndexOnEveryMark ==
    /\ \A k \in 1..Len(ServerCards) :
          \A i \in 1..Len(MarksOf(dom, ServerCards[k]._id)) :
              dom[MarksOf(dom, ServerCards[k]._id)[i]].index = ServerCards[k].index
    /\ NoOtherIndex

\* C24: the first mark of every positioned highlight with a server id carries
\* the index shown on its card; no mark of it carries another index (its
\* further marks carry none).
C24_IndexOnFirstMark ==
    /\ \A k \in 1..Len(ServerCards) :
          MarksOf(dom, ServerCards[k]._id) # <<>>
              => dom[MarksOf(dom, ServerCards[k]._id)[1]].index = ServerCards[k].index
    /\ NoOtherIndex

\* a highlight over two text nodes: its first mark carries the card's index,
\* its second none
C24_Witness ==
    /\ net = {}
    /\ Len(ServerCards) = 1
    /\ ServerCards[1].index = 1
    /\ Len(MarksOf(dom, ServerCards[1]._id)) = 2
    /\ dom[MarksOf(dom, ServerCards[1]._id)[1]].index = 1
    /\ dom[MarksOf(dom, ServerCards[1]._id)[2]].index = 0

\* the popover is open on an annotation and holds a comment other than the
\* one its card shows
Edited ==
    /\ activeAnnotation # NoId
    /\ \E i \in 1..Len(positionedAnnotations) :
          /\ positionedAnnotations[i]._id = activeAnnotation
          /\ positionedAnnotations[i].comment # editingComment

\* a request that saves the popover's comment and tags
SavesEdits(req) ==
    /\ req.intent \in {"update", "upsertGeneral"}
    /\ req.intent = "update" => req.annotationId = activeAnnotation
    /\ req.comment = editingComment
    /\ req.tags = editingTags

\* C25: when a highlight is clicked while the popover of another annotation
\* holds edits, a save of those edits is submitted in the step that opens the
\* popover of the clicked annotation.
C25_SwitchSavesEdits ==
    [][(Edited /\ ClickHighlight) => \E req \in Submitted : SavesEdits(req)]_vars

\* the id of a general note that exists on the page only
IsGeneralId(id) == id = Placeholder \/ id.k = "temp-general-"

\* C26: whenever the document's click handler sees a click outside the popover
\* while an annotation is active, a save of the popover's comment and tags is
\* in flight after the step, through upsertGeneral when the active id is the
\* placeholder or a temp-general id. (The exception, a temporary highlight id,
\* cannot occur: saveAnnotation stores no temporary highlight.)
C26_AutosaveOnDismiss ==
    [][(ClickOutside \/ ClickSameHighlight)
          => \E req \in net' :
                /\ req.live
                /\ SavesEdits(req)
                /\ IsGeneralId(activeAnnotation) => req.intent = "upsertGeneral"]_vars

Max(a, b) == IF a >= b THEN a ELSE b

\* C27: once the collision pass has run on the positioned list with the
\* cards' heights, a further run with the same list and heights leaves the
\* offsets as they are (no state update), and the offset of each card is its
\* raw top for the first card and max(raw top, previous card's offset + height
\* + 15) for every other.
C27_CollisionStabilises ==
    (pc = "positioned" /\ cardHeights # NoOffsets)
        => LET ps == positionedAnnotations
           IN  /\ CollisionPass(ps, cardHeights, visualOffsets) = visualOffsets
               /\ visualOffsets[ps[1]._id] = ps[1].top
               /\ \A i \in 1..(Len(ps) - 1) :
                     visualOffsets[ps[i + 1]._id]
                         = Max(ps[i + 1].top,
                               visualOffsets[ps[i]._id] + cardHeights[ps[i]._id] + 15)

\* the pass ran and moved the first highlight's card below the general card
C27_Witness ==
    /\ pc = "positioned"
    /\ cardHeights # NoOffsets
    /\ Len(positionedAnnotations) = 2
    /\ visualOffsets[positionedAnnotations[2]._id]
           = visualOffsets[positionedAnnotations[1]._id]
                 + cardHeights[positionedAnnotations[1]._id] + 15
    /\ visualOffsets[positionedAnnotations[2]._id] > positionedAnnotations[2].top
    /\ CollisionPass(positionedAnnotations, cardHeights, visualOffsets) = visualOffsets

\* C28: no update or delete request sent to the server carries an id made on
\* the page (the placeholder or a temporary id).
C28_NoClientIdSent ==
    \A req \in net :
        req.intent \in {"update", "delete"} => req.annotationId.k = "oid"

\* the server has deleted a record, every request has been answered and the
\* store is the server's list of the document viewed, which is the document
\* the page was opened on
DeleteSettled ==
    /\ Len(db) < nextOid - 1
    /\ doc = mountDoc
    /\ net = {}
    /\ fetcherData.kind = "list"
    /\ annotations = Find(db, doc)

\* C29: once a delete has been confirmed and the re-fetched list applied
\* (on a page that has shown one document only), every mark in the article
\* carries the id of an annotation in the store.
C29_NoOrphanMarks ==
    DeleteSettled
        => MarkIds(dom) \subseteq {annotations[i]._id : i \in 1..Len(annotations)}

\* the tags of the document's general note on the server
ServerTags(records, docId) ==
    UNION {{records[i].tags[k] : k \in 1..Len(records[i].tags)} :
              i \in GeneralsAt(records, docId)}

\* C30: a save of a general note's comment (an update or upsertGeneral with a
\* comment that is not empty, so no clearing of the note) drops no tag from
\* the general note on the server.
C30_SavesKeepTags ==
    [][\A req \in net :
          (/\ req.intent \in {"update", "upsertGeneral"}
           /\ req.comment # ""
           /\ Handles(req))
              => \A d \in Docs : ServerTags(db, d) \subseteq ServerTags(db', d)]_vars

=============================================================================
